---- MODULE Spec2Model ----
(***************************************************************************)
(* A state-machine model of brahe: the tree comparator (compareDir), the   *)
(* per-file hashing tasks, the hash database (ensureDBEntry, hasDBEntry),  *)
(* the dedupe walk (deleteDupes), the gap finder (findGaps) and the        *)
(* driver / display-task shutdown protocol (main, statsGalore).            *)
(*                                                                         *)
(* Paths are sequences of names: <<root, n1, ..., nk>> is what             *)
(* filepath.Join builds from a configured root and k entry names.          *)
(* float64 progress values are modelled in whole units with truncating     *)
(* division, so that value / parts is inexact exactly when parts does not  *)
(* divide value; the remainder plays the role of the rounding error.       *)
(***************************************************************************)
EXTENDS Integers, Sequences, FiniteSets, TLC

\* ------------------------------------------------------------------------
\* Bounds of the model
\* ------------------------------------------------------------------------

\* The filesystem holds at most this many entries under all roots together.
MaxEntries == 3

\* An entry lies at most this many names below its root.
MaxLevels == 3

\* The -depth option ranges over -1 .. MaxDepthOpt.
MaxDepthOpt == 1

\* ------------------------------------------------------------------------
\* Program constants
\* ------------------------------------------------------------------------

\* compareDir(cfg, 100.0, cfg.entries, cfg.depth)
ProgressTotal == 100

\* The positional arguments: the source and the targets, in order.
Roots == << <<"S">>, <<"T1">>, <<"T2">> >>

\* Entry names, in the order ioutil.ReadDir returns them (sorted by name).
NameOrder == <<"Thumbs.db", "a", "found.000">>

Names == {NameOrder[k] : k \in 1..Len(NameOrder)}

\* The directory names getConfig puts under every root into ignoreSpecificDirs.
SystemDirNames == {"$RECYCLE.BIN", "$Recycle.Bin", "System Volume Information", "found.000"}

\* The file names getConfig puts into ignoreFiles.
SystemFileNames == {"Thumbs.db"}

\* File contents, and the digest hashFile computes of each.
Contents == {"X", "Y"}

\* hashFile is modelled with digests of two bytes instead of thirty-two: equal
\* contents give equal digests and the contents of the model give different
\* ones; two of them begin with the same byte.
Blake2b(content) ==
    CASE content = "X" -> <<10, 171>>
      [] content = "Y" -> <<10, 205>>
      [] OTHER -> <<14, 87>>

\* A result slot no task has written yet (a nil []byte).
NilHash == <<>>

\* ------------------------------------------------------------------------
\* Paths and the filesystem
\* ------------------------------------------------------------------------

\* filepath.Join(dirName, name)
Join(dirName, name) == Append(dirName, name)

Parent(path) == SubSeq(path, 1, Len(path) - 1)

Base(path) == path[Len(path)]

Node(path, isDir) == [path |-> path, isDir |-> isDir]

RECURSIVE RelPaths(_)
RelPaths(k) ==
    IF k = 0 THEN {<<>>}
    ELSE RelPaths(k - 1) \cup
         {Append(p, n) : p \in {q \in RelPaths(k - 1) : Len(q) = k - 1}, n \in Names}

AllPaths ==
    {Roots[r] \o rel : r \in 1..Len(Roots), rel \in RelPaths(MaxLevels) \ {<<>>}}

AllNodes == {Node(p, d) : p \in AllPaths, d \in BOOLEAN}

\* A node can be added to a filesystem when its path is free and its parent
\* is a root or a directory of that filesystem.
CanAdd(fsys, node) ==
    /\ \A m \in fsys : m.path # node.path
    /\ \/ Len(node.path) = 2
       \/ \E m \in fsys : m.path = Parent(node.path) /\ m.isDir

\* Every filesystem of at most k entries taken from nodes.
RECURSIVE Forests(_, _)
Forests(nodes, k) ==
    IF k = 0 THEN {{}}
    ELSE LET prev == Forests(nodes, k - 1)
         IN  prev \cup {x[1] \cup {x[2]} :
                          x \in {y \in prev \X nodes : CanAdd(y[1], y[2])}}

AllForests == Forests(AllNodes, MaxEntries)

Exists(fsys, path) == \E n \in fsys : n.path = path

IsDir(fsys, path) == \E n \in fsys : n.path = path /\ n.isDir

\* ioutil.ReadDir: the entries of one directory, sorted by name (order lists
\* the names a directory can hold, sorted).
ReadDir(order, fsys, dirName) ==
    LET Present(n) == Exists(fsys, Join(dirName, n))
        names == SelectSeq(order, Present)
    IN  [k \in 1..Len(names) |->
            [name |-> names[k], isDir |-> IsDir(fsys, Join(dirName, names[k]))]]

getFileList(fsys, dirName) == ReadDir(NameOrder, fsys, dirName)

getFileLists(fsys, dirNames) ==
    [j \in 1..Len(dirNames) |-> getFileList(fsys, dirNames[j])]

\* ------------------------------------------------------------------------
\* Configuration
\* ------------------------------------------------------------------------

\* cfg.gapOpts without -find-gaps: a nil pointer.
NoGapOpts == <<>>

\* getConfig: the ignore maps are filled only without -system-names.
getConfig(entries, depth, noData, checkSysNames) ==
    [entries |-> entries,
     depth |-> depth,
     noData |-> noData,
     checkSysNames |-> checkSysNames,
     gapOpts |-> NoGapOpts,
     buildDB |-> FALSE,
     checkDB |-> FALSE,
     deleteDupes |-> FALSE,
     copy |-> "",
     ignoreSpecificDirs |->
        IF checkSysNames THEN {}
        ELSE {Join(entries[k], n) : k \in 1..Len(entries), n \in SystemDirNames},
     ignoreFiles |-> IF checkSysNames THEN {} ELSE SystemFileNames]

Configs ==
    {getConfig(SubSeq(Roots, 1, n), d, nd, sys) :
        n \in 2..Len(Roots), d \in -1..MaxDepthOpt, nd \in BOOLEAN, sys \in BOOLEAN}

\* An ignore rule that does not ask whether the entry is a directory.
IgnoreRuleAnyKind(config, fullName, name, isDir) ==
    fullName \in config.ignoreSpecificDirs \/ name \in config.ignoreFiles

\* (isDir && cfg.ignoreSpecificDirs[fullName]) || (!isDir && cfg.ignoreFiles[name])
IgnoreRule(config, fullName, name, isDir) ==
    \/ isDir /\ fullName \in config.ignoreSpecificDirs
    \/ ~isDir /\ name \in config.ignoreFiles

\* ------------------------------------------------------------------------
\* Progress splitting
\* ------------------------------------------------------------------------

splitProgressValueNoExtra(value, parts) ==
    [chunk |-> IF parts > 0 THEN value \div parts ELSE 0, extra |-> 0]

splitProgressValue(value, parts) ==
    LET chunk == IF parts > 0 THEN value \div parts ELSE 0
    IN  [chunk |-> chunk, extra |-> value - chunk * parts]

\* ------------------------------------------------------------------------
\* State
\* ------------------------------------------------------------------------

VARIABLES
    fs,         \* the directory trees under the roots: a set of nodes
    cfg,        \* the Config built by getConfig
    pc,         \* where the driver's walk is: "start", "walk", "done"
    stack,      \* the active compareDir calls, outermost first
    hashing,    \* the hashing tasks of the file being compared, and their slots
    stats,      \* the shared Stats
    console,    \* the lines reportMismatch has written, in order
    trail,      \* every source entry the walk has processed, in order
    lastEntry,  \* what the walk decided for the entry it finished last
    lastCall,   \* the budget and the consumption of the call that returned last
    seenHashes, \* deleteDupes: its hashes map, shared by all the recursive calls
    removed,    \* deleteDupes: the files os.Remove has deleted
    ensured,    \* the arguments of the ensureDBEntry calls that have returned
    lastDb,     \* the database call that returned last, and what it did
    dbSteps,    \* the number of database calls made
    dispPc,     \* where the display task (statsGalore) is
    shutdown,   \* the Shutdown: its flag, its wait group, its lock
    displayInfo,\* the DisplayInfo: show, line, its lock
    statsLock,  \* who holds stats.lock: "free", "main" or "display"
    statsCache, \* the display task's clone of the Stats
    walkLeft,   \* the entries the driver's walk still has to count
    copies,     \* the tree under the -copy directory: what check mode has written
    runs,       \* the runs of the program made on this disk, and the disk before
    lastUse,    \* what useDB decided for the entry it finished last
    arguments,  \* the command line handed to getConfig
    parsed      \* what getConfig returned for it

walkVars == <<fs, cfg, pc, stack, stats, console, trail, lastEntry, lastCall>>

cmpVars == <<hashing>>

dupVars == <<seenHashes, removed>>

dbVars == <<ensured, lastDb, dbSteps>>

shutVars == <<dispPc, shutdown, displayInfo, statsLock, statsCache, walkLeft>>

useVars == <<copies, runs, lastUse>>

cliVars == <<arguments, parsed>>

vars == <<walkVars, cmpVars, dupVars, dbVars, shutVars, useVars, cliVars>>

\* What the tree comparison leaves alone.
notCompare == <<dupVars, dbVars, shutVars, useVars, cliVars>>

\* What the dedupe walk leaves alone.
notDedupe == <<cmpVars, dbVars, shutVars, useVars, cliVars>>

\* What the gap finder leaves alone.
notGaps == <<trail, lastEntry, lastCall, cmpVars, dupVars, dbVars, shutVars, useVars, cliVars>>

\* What the database calls leave alone.
notDb ==
    <<cfg, stack, stats, console, trail, lastEntry, lastCall, cmpVars, dupVars, shutVars,
      useVars, cliVars>>

\* An unlocked sync.RWMutex.
Unlocked == [writer |-> "none", readers |-> {}]

\* The package variables of the display before main has touched them.
NoDisplayTask ==
    /\ dispPc = "unborn"
    /\ shutdown = [start |-> FALSE, wg |-> 0, lock |-> Unlocked]
    /\ displayInfo = [show |-> FALSE, line |-> <<>>, lock |-> Unlocked]
    /\ statsLock = "free"
    /\ statsCache = <<>>
    /\ walkLeft = 0

NoDbCall ==
    [op |-> "none", parentDir |-> <<>>, hash |-> <<>>, entry |-> "",
     repeated |-> FALSE, modified |-> FALSE, found |-> FALSE, before |-> "", after |-> ""]

\* The empty string, as a path.
NoPath == <<>>

NoHashing ==
    [active |-> FALSE, allNames |-> <<>>, hashes |-> <<>>, wg |-> 0, running |-> {},
     deltaMatched |-> 0, deltaMismatched |-> 0, deltaMissing |-> 0]

NoEntry ==
    [how |-> "none", fullName |-> NoPath, isDir |-> FALSE, dirNames |-> <<>>,
     allNames |-> <<>>, hashes |-> <<>>,
     deltaMatched |-> 0, deltaMismatched |-> 0, deltaMissing |-> 0]

NoCall == [returned |-> FALSE, dirNames |-> <<>>, progressValue |-> 0, consumed |-> 0]

ZeroStats ==
    [progress |-> 0, currentPath |-> NoPath,
     matched |-> 0, mismatched |-> 0, missing |-> 0, ignored |-> 0, copied |-> 0]

Report(kind, path) == [kind |-> kind, path |-> path]

NoUse ==
    [how |-> "none", fullName |-> NoPath, hash |-> <<>>, inDb |-> FALSE, dst |-> "",
     deltaMatched |-> 0, deltaMissing |-> 0, deltaCopied |-> 0]

NoArguments == <<>>

\* Nothing has run yet: no copy was made, no command line was parsed.
FirstRun ==
    /\ copies = {}
    /\ runs = [count |-> 1, before |-> {}]
    /\ lastUse = NoUse
    /\ arguments = NoArguments
    /\ parsed = <<>>

\* ------------------------------------------------------------------------
\* compareDir: searching the targets for one source entry
\* ------------------------------------------------------------------------

\* The search with the name test dropped: the first entry of the listing decides.
SearchTargetAnyName(files, name, isDir) ==
    IF Len(files) = 0 THEN "absent"
    ELSE IF files[1].isDir = isDir THEN "found" ELSE "dirMismatch"

\* The loop over k: the first entry called name decides, then break.
SearchTarget(files, name, isDir) ==
    LET hits == {k \in 1..Len(files) : files[k].name = name}
    IN  IF hits = {} THEN "absent"
        ELSE LET k == CHOOSE h \in hits : \A g \in hits : h <= g
             IN  IF files[k].isDir = isDir THEN "found" ELSE "dirMismatch"

\* A scan that keeps a target in the recursive call whatever it holds.
ScanStepKeepsTarget(acc, files, searchName, name, isDir) ==
    LET r == SearchTarget(files, name, isDir)
    IN  CASE r = "found" ->
               [acc EXCEPT !.allNames = Append(@, searchName),
                           !.deltaMatched = @ + 1]
          [] r = "dirMismatch" ->
               [acc EXCEPT !.allNames = Append(@, searchName),
                           !.deltaMismatched = @ + 1,
                           !.reports = Append(@,
                               Report(IF isDir THEN "EXPECTED DIR" ELSE "EXPECTED FILE",
                                      searchName))]
          [] OTHER ->
               [acc EXCEPT !.allNames = Append(@, searchName),
                           !.deltaMissing = @ + 1,
                           !.reports = Append(@, Report("MISSING", searchName))]

\* A type mismatch that is also counted as missing.
ScanStepAlsoMissing(acc, files, searchName, name, isDir) ==
    LET r == SearchTarget(files, name, isDir)
    IN  CASE r = "found" ->
               [acc EXCEPT !.allNames = Append(@, searchName),
                           !.deltaMatched = @ + 1]
          [] r = "dirMismatch" ->
               [acc EXCEPT !.deltaMismatched = @ + 1,
                           !.deltaMissing = @ + 1,
                           !.reports = Append(@,
                               Report(IF isDir THEN "EXPECTED DIR" ELSE "EXPECTED FILE",
                                      searchName))]
          [] OTHER ->
               [acc EXCEPT !.deltaMissing = @ + 1,
                           !.reports = Append(@, Report("MISSING", searchName))]

\* One round of the loop over j: target j's listing is searched for name.
ScanStep(acc, files, searchName, name, isDir) ==
    LET r == SearchTarget(files, name, isDir)
    IN  CASE r = "found" ->
               [acc EXCEPT !.allNames = Append(@, searchName),
                           !.deltaMatched = @ + 1]
          [] r = "dirMismatch" ->
               [acc EXCEPT !.deltaMismatched = @ + 1,
                           !.reports = Append(@,
                               Report(IF isDir THEN "EXPECTED DIR" ELSE "EXPECTED FILE",
                                      searchName))]
          [] OTHER ->
               [acc EXCEPT !.deltaMissing = @ + 1,
                           !.reports = Append(@, Report("MISSING", searchName))]

RECURSIVE ScanFrom(_, _, _, _, _, _)
ScanFrom(acc, allFileInfos, dirNames, name, isDir, j) ==
    IF j > Len(allFileInfos) THEN acc
    ELSE ScanFrom(ScanStep(acc, allFileInfos[j], Join(dirNames[j], name), name, isDir),
                  allFileInfos, dirNames, name, isDir, j + 1)

\* The whole loop over the targets, for the source entry called name.
ScanTargets(allFileInfos, dirNames, name, isDir) ==
    ScanFrom([allNames |-> <<Join(dirNames[1], name)>>,
              deltaMatched |-> 0, deltaMismatched |-> 0, deltaMissing |-> 0,
              reports |-> <<>>],
             allFileInfos, dirNames, name, isDir, 2)

\* ------------------------------------------------------------------------
\* compareDir: judging the digests of one file
\* ------------------------------------------------------------------------

\* Each digest compared with the one before it instead of with the source's.
HashDiffersFromPrevious(hashes, j) == hashes[j] # hashes[j - 1]

\* !bytes.Equal(hash, hashes[j]), hash being hashes[0], the source's digest.
HashDiffers(hashes, j) == hashes[j] # hashes[1]

RECURSIVE JudgeFrom(_, _, _, _)
JudgeFrom(acc, allNames, hashes, j) ==
    IF j > Len(hashes) THEN acc
    ELSE JudgeFrom(
            IF HashDiffers(hashes, j)
            THEN [acc EXCEPT !.deltaMatched = @ - 1,
                             !.deltaMismatched = @ + 1,
                             !.reports = Append(@, Report("WRONG HASH", allNames[j]))]
            ELSE acc,
            allNames, hashes, j + 1)

\* The loop over the digests after wg.Wait().
JudgeHashes(h) ==
    JudgeFrom([deltaMatched |-> h.deltaMatched, deltaMismatched |-> h.deltaMismatched,
               deltaMissing |-> h.deltaMissing, reports |-> <<>>],
              h.allNames, h.hashes, 2)

\* wg.Wait() returning one task too early.
WaitReturnsEarly(h) == h.wg <= 1

\* wg.Wait() returns once every task has called wg.Done().
WaitReturns(h) == h.wg = 0

\* hashes[idx], speeds[idx] = hashFile(name): task idx writes slot idx.
TaskSlot(h, idx) == idx

\* ------------------------------------------------------------------------
\* compareDir: the walk
\* ------------------------------------------------------------------------

\* The entry of compareDir: the listings are read and the budget is split.
compareDirCall(progressValue, dirNames, depth) ==
    LET allFileInfos == getFileLists(fs, dirNames)
        split == splitProgressValue(progressValue, Len(allFileInfos[1]))
    IN  [dirNames |-> dirNames,
         allFileInfos |-> allFileInfos,
         i |-> 0,
         progressValue |-> progressValue,
         progressChunk |-> split.chunk,
         progressExtra |-> split.extra,
         depth |-> depth,
         entryProgress |-> stats.progress,
         deltaMatched |-> 0, deltaMismatched |-> 0, deltaMissing |-> 0]

Top == stack[Len(stack)]

fiCount == Len(Top.allFileInfos[1])

\* The source entry the loop over i is at.
CurEntry == Top.allFileInfos[1][Top.i + 1]

CurFullName == Join(Top.dirNames[1], CurEntry.name)

CurIgnored == IgnoreRule(cfg, CurFullName, CurEntry.name, CurEntry.isDir)

CurScan == ScanTargets(Top.allFileInfos, Top.dirNames, CurEntry.name, CurEntry.isDir)

\* The loop over i has an entry left and no file is being hashed.
AtEntry ==
    /\ pc = "walk"
    /\ ~hashing.active
    /\ Top.i < fiCount

\* The descent guarded by depth > 0: no descent without a depth limit (-1).
DescendsWhilePositive(scan) == Len(scan.allNames) > 1 /\ CurEntry.isDir /\ Top.depth > 0

\* A descent into a directory that no target has.
DescendsIntoMissing(scan) == CurEntry.isDir /\ Top.depth # 0

\* A descent that does not look at the depth left.
DescendsAlways(scan) == Len(scan.allNames) > 1 /\ CurEntry.isDir

\* if len(allNames) > 1 { if isDir { if depth != 0 {
Descends(scan) == Len(scan.allNames) > 1 /\ CurEntry.isDir /\ Top.depth # 0

\* if len(allNames) > 1 { ... } else if !cfg.noData {
Hashes(scan) == Len(scan.allNames) > 1 /\ ~CurEntry.isDir /\ ~cfg.noData

NextEntry(frame) == [frame EXCEPT !.i = @ + 1]

ReplaceTop(frame) == [stack EXCEPT ![Len(stack)] = frame]

Decided(how, frame, fullName, isDir, allNames, hashes, dm, dmm, dmiss) ==
    [how |-> how, fullName |-> fullName, isDir |-> isDir, dirNames |-> frame.dirNames,
     allNames |-> allNames, hashes |-> hashes,
     deltaMatched |-> dm, deltaMismatched |-> dmm, deltaMissing |-> dmiss]

\* main: compareDir(cfg, 100.0, cfg.entries, cfg.depth)
StartCompare ==
    /\ pc = "start"
    /\ pc' = "walk"
    /\ stack' = <<compareDirCall(ProgressTotal, cfg.entries, cfg.depth)>>
    /\ UNCHANGED <<notCompare, fs, cfg, hashing, stats, console, trail, lastEntry, lastCall>>

\* An entry matching the ignore rule: its share is consumed and it is counted.
IgnoreEntry ==
    /\ AtEntry
    /\ CurIgnored
    /\ stats' = [stats EXCEPT !.progress = @ + Top.progressChunk, !.ignored = @ + 1]
    /\ stack' = ReplaceTop(NextEntry(Top))
    /\ lastEntry' = Decided("ignored", Top, CurFullName, CurEntry.isDir, <<>>, <<>>, 0, 0, 0)
    /\ UNCHANGED <<notCompare, fs, cfg, pc, hashing, console, trail, lastCall>>

\* A directory found in a target, within the depth limit: the recursive call.
DescendEntry ==
    /\ AtEntry
    /\ ~CurIgnored
    /\ LET scan == CurScan
       IN  /\ Descends(scan)
           /\ stats' = [stats EXCEPT !.currentPath = CurFullName]
           /\ console' = console \o scan.reports
           /\ trail' = Append(trail, CurFullName)
           /\ stack' = Append(
                ReplaceTop([Top EXCEPT !.deltaMatched = scan.deltaMatched,
                                       !.deltaMismatched = scan.deltaMismatched,
                                       !.deltaMissing = scan.deltaMissing]),
                compareDirCall(Top.progressChunk, scan.allNames, Top.depth - 1))
    /\ UNCHANGED <<notCompare, fs, cfg, pc, hashing, lastEntry, lastCall>>

\* A file found in a target, contents compared: one hashing task per copy.
HashEntry ==
    /\ AtEntry
    /\ ~CurIgnored
    /\ LET scan == CurScan
       IN  /\ Hashes(scan)
           /\ stats' = [stats EXCEPT !.currentPath = CurFullName]
           /\ console' = console \o scan.reports
           /\ trail' = Append(trail, CurFullName)
           /\ hashing' = [active |-> TRUE,
                          allNames |-> scan.allNames,
                          hashes |-> [k \in 1..Len(scan.allNames) |-> NilHash],
                          wg |-> Len(scan.allNames),
                          running |-> 1..Len(scan.allNames),
                          deltaMatched |-> scan.deltaMatched,
                          deltaMismatched |-> scan.deltaMismatched,
                          deltaMissing |-> scan.deltaMissing]
    /\ UNCHANGED <<notCompare, fs, cfg, pc, stack, lastEntry, lastCall>>

\* Every other entry: the verdict of the search is counted as it is.
PlainEntry ==
    /\ AtEntry
    /\ ~CurIgnored
    /\ LET scan == CurScan
       IN  /\ ~Descends(scan)
           /\ ~Hashes(scan)
           /\ stats' = [stats EXCEPT !.currentPath = CurFullName,
                                     !.progress = @ + Top.progressChunk,
                                     !.matched = @ + scan.deltaMatched,
                                     !.mismatched = @ + scan.deltaMismatched,
                                     !.missing = @ + scan.deltaMissing]
           /\ console' = console \o scan.reports
           /\ trail' = Append(trail, CurFullName)
           /\ lastEntry' = Decided("plain", Top, CurFullName, CurEntry.isDir,
                                   scan.allNames, <<>>, scan.deltaMatched,
                                   scan.deltaMismatched, scan.deltaMissing)
    /\ stack' = ReplaceTop(NextEntry(Top))
    /\ UNCHANGED <<notCompare, fs, cfg, pc, hashing, lastCall>>

\* One hashing task finishes: hashFile has read the copy and the task stores
\* the digest of the bytes it read, then calls wg.Done().
HashTaskDone(idx) ==
    /\ pc = "walk"
    /\ hashing.active
    /\ idx \in hashing.running
    /\ \E content \in Contents :
         hashing' = [hashing EXCEPT !.hashes[TaskSlot(hashing, idx)] = Blake2b(content),
                                    !.wg = @ - 1,
                                    !.running = @ \ {idx}]
    /\ UNCHANGED <<notCompare, fs, cfg, pc, stack, stats, console, trail, lastEntry, lastCall>>

\* wg.Wait() has returned: the digests are judged and the entry is counted.
JudgeEntry ==
    /\ pc = "walk"
    /\ hashing.active
    /\ WaitReturns(hashing)
    /\ LET verdict == JudgeHashes(hashing)
       IN  /\ stats' = [stats EXCEPT !.progress = @ + Top.progressChunk,
                                     !.matched = @ + verdict.deltaMatched,
                                     !.mismatched = @ + verdict.deltaMismatched,
                                     !.missing = @ + verdict.deltaMissing]
           /\ console' = console \o verdict.reports
           /\ lastEntry' = Decided("hashed", Top, CurFullName, FALSE,
                                   hashing.allNames, hashing.hashes,
                                   verdict.deltaMatched, verdict.deltaMismatched,
                                   verdict.deltaMissing)
    /\ hashing' = NoHashing
    /\ stack' = ReplaceTop(NextEntry(Top))
    /\ UNCHANGED <<notCompare, fs, cfg, pc, trail, lastCall>>

Returned(frame, progress) ==
    [returned |-> TRUE, dirNames |-> frame.dirNames,
     progressValue |-> frame.progressValue,
     consumed |-> progress - frame.entryProgress]

\* A recursive call is through its listing: it clears the current path, adds
\* its remainder and returns; the caller then counts the directory's verdict.
ReturnFromDir ==
    /\ pc = "walk"
    /\ ~hashing.active
    /\ Len(stack) > 1
    /\ Top.i = fiCount
    /\ LET caller == stack[Len(stack) - 1]
           dir == caller.allFileInfos[1][caller.i + 1]
       IN  /\ stats' = [stats EXCEPT !.currentPath = NoPath,
                                     !.progress = @ + Top.progressExtra,
                                     !.matched = @ + caller.deltaMatched,
                                     !.mismatched = @ + caller.deltaMismatched,
                                     !.missing = @ + caller.deltaMissing]
           /\ lastCall' = Returned(Top, stats.progress + Top.progressExtra)
           /\ lastEntry' = Decided("descended", caller, Join(caller.dirNames[1], dir.name),
                                   TRUE, Top.dirNames, <<>>, caller.deltaMatched,
                                   caller.deltaMismatched, caller.deltaMissing)
           /\ stack' = Append(SubSeq(stack, 1, Len(stack) - 2),
                              [NextEntry(caller) EXCEPT !.deltaMatched = 0,
                                                        !.deltaMismatched = 0,
                                                        !.deltaMissing = 0])
    /\ UNCHANGED <<notCompare, fs, cfg, pc, hashing, console, trail>>

\* The top-level call is through its listing and returns to main.
FinishCompare ==
    /\ pc = "walk"
    /\ ~hashing.active
    /\ Len(stack) = 1
    /\ Top.i = fiCount
    /\ stats' = [stats EXCEPT !.currentPath = NoPath, !.progress = @ + Top.progressExtra]
    /\ lastCall' = Returned(Top, stats.progress + Top.progressExtra)
    /\ stack' = <<>>
    /\ pc' = "done"
    /\ UNCHANGED <<notCompare, fs, cfg, hashing, console, trail, lastEntry>>

\* The trees under the roots the configuration names.
InitFs(config, forests) ==
    {f \in forests :
        \A n \in f : \E k \in 1..Len(config.entries) :
            SubSeq(n.path, 1, 1) = config.entries[k]}

CompareInit ==
    /\ cfg \in Configs
    /\ fs \in InitFs(cfg, AllForests)
    /\ pc = "start"
    /\ stack = <<>>
    /\ hashing = NoHashing
    /\ stats = ZeroStats
    /\ console = <<>>
    /\ trail = <<>>
    /\ lastEntry = NoEntry
    /\ lastCall = NoCall
    /\ seenHashes = {}
    /\ removed = {}
    /\ ensured = {}
    /\ lastDb = NoDbCall
    /\ dbSteps = 0
    /\ NoDisplayTask
    /\ FirstRun

CompareNext ==
    \/ StartCompare
    \/ IgnoreEntry
    \/ DescendEntry
    \/ HashEntry
    \/ PlainEntry
    \/ \E idx \in 1..Len(Roots) : HashTaskDone(idx)
    \/ JudgeEntry
    \/ ReturnFromDir
    \/ FinishCompare

SpecCompare == CompareInit /\ [][CompareNext]_vars

\* ------------------------------------------------------------------------
\* Properties of the tree comparison (SpecCompare)
\* ------------------------------------------------------------------------

Count(seq, x) == Cardinality({k \in DOMAIN seq : seq[k] = x})

\* The path below the root, and the same path under the source or a target.
Rel(path) == SubSeq(path, 2, Len(path))

SourceOf(path) == cfg.entries[1] \o Rel(path)

TargetRoots == {cfg.entries[k] : k \in 2..Len(cfg.entries)}

SourceNodes == {n \in fs : SubSeq(n.path, 1, 1) = cfg.entries[1]}

\* A listing without the entries whose name the source listing does not have.
WithoutExtras(allFileInfos) ==
    LET InSource(e) == \E k \in 1..Len(allFileInfos[1]) : allFileInfos[1][k].name = e.name
    IN  [j \in 1..Len(allFileInfos) |->
            IF j = 1 THEN allFileInfos[1] ELSE SelectSeq(allFileInfos[j], InSource)]

HasExtras(allFileInfos) == WithoutExtras(allFileInfos) # allFileInfos

\* C1 (haystack tolerance): every report names a path whose name occurs in
\* the corresponding source directory, and for every compareDir call and every
\* source entry of it the search of the targets (the counter deltas, the
\* reports and the candidate set) comes out the same as with every target
\* entry removed whose name the source directory does not have.
HaystackTolerance ==
    /\ \A k \in DOMAIN console : Exists(fs, SourceOf(console[k].path))
    /\ \A d \in DOMAIN stack :
         LET f == stack[d]
         IN  \A i \in 1..Len(f.allFileInfos[1]) :
                LET e == f.allFileInfos[1][i]
                IN  ScanTargets(f.allFileInfos, f.dirNames, e.name, e.isDir)
                      = ScanTargets(WithoutExtras(f.allFileInfos), f.dirNames,
                                    e.name, e.isDir)

\* A finished entry found in a target whose listing begins with an entry the
\* source does not have.
HaystackWitness ==
    /\ lastEntry.how \in {"plain", "hashed"}
    /\ lastEntry.deltaMatched > 0
    /\ Len(stack) = 1
    /\ \E j \in 2..Len(Top.allFileInfos) :
         /\ Len(Top.allFileInfos[j]) > 1
         /\ \A k \in 1..Len(Top.allFileInfos[1]) :
              Top.allFileInfos[1][k].name # Top.allFileInfos[j][1].name

\* The targets of the finished entry that hold its name with the other kind,
\* and those that do not hold it at all.
OtherKind(entry) ==
    {j \in 2..Len(entry.dirNames) :
        LET p == Join(entry.dirNames[j], Base(entry.fullName))
        IN  Exists(fs, p) /\ IsDir(fs, p) # entry.isDir}

Absent(entry) ==
    {j \in 2..Len(entry.dirNames) :
        ~Exists(fs, Join(entry.dirNames[j], Base(entry.fullName)))}

WrongHashes(entry) ==
    {k \in 2..Len(entry.hashes) : entry.hashes[k] # entry.hashes[1]}

Judged == lastEntry.how \in {"plain", "hashed", "descended"}

\* C2 (type-mismatch precedence): a target holding the entry's name with the
\* other kind is counted as mismatched and not as missing (missing counts the
\* targets lacking the name, mismatched the other-kind targets plus the wrong
\* digests), it gets one EXPECTED report and no MISSING report, its path is
\* not in the candidate set, no hashing task reads a directory and no
\* compareDir call lists a file.
TypeMismatchPrecedence ==
    /\ Judged =>
         /\ lastEntry.deltaMissing = Cardinality(Absent(lastEntry))
         /\ lastEntry.deltaMismatched =
               Cardinality(OtherKind(lastEntry)) + Cardinality(WrongHashes(lastEntry))
         /\ \A j \in OtherKind(lastEntry) :
              LET p == Join(lastEntry.dirNames[j], Base(lastEntry.fullName))
              IN  /\ \A k \in DOMAIN lastEntry.allNames : lastEntry.allNames[k] # p
                  /\ Count(console, Report("MISSING", p)) = 0
                  /\ Count(console,
                           Report(IF lastEntry.isDir THEN "EXPECTED DIR"
                                  ELSE "EXPECTED FILE", p)) = 1
    /\ hashing.active =>
         \A k \in DOMAIN hashing.allNames :
            Exists(fs, hashing.allNames[k]) /\ ~IsDir(fs, hashing.allNames[k])
    /\ \A d \in DOMAIN stack : \A j \in DOMAIN stack[d].dirNames :
         Len(stack[d].dirNames[j]) > 1 => IsDir(fs, stack[d].dirNames[j])

\* A file hashed against one target while another target holds a directory
\* of its name.
TypeMismatchWitness ==
    /\ lastEntry.how = "hashed"
    /\ OtherKind(lastEntry) # {}
    /\ lastEntry.deltaMissing = 0

\* The entries the walk can get to: every directory above them (below the
\* root) is not ignored, is within the depth limit and is a directory in at
\* least one target.
Reached(path) ==
    \A len \in 2..(Len(path) - 1) :
        LET q == SubSeq(path, 1, len)
        IN  /\ ~IgnoreRule(cfg, q, Base(q), TRUE)
            /\ cfg.depth # len - 2
            /\ \E t \in TargetRoots : IsDir(fs, t \o Rel(q))

Ignored(node) == IgnoreRule(cfg, node.path, Base(node.path), node.isDir)

\* C3 as stated: after the run every entry of the source tree that matches
\* no ignore rule has been processed exactly once.
CompletenessAsStated ==
    pc = "done" =>
        \A n \in SourceNodes : ~Ignored(n) => Count(trail, n.path) = 1

\* C3 (completeness, amended): after the run every entry of the source tree
\* that matches no ignore rule and that the walk can get to has been processed
\* exactly once, and every other entry of the source tree not at all.
CompletenessWithinReach ==
    pc = "done" =>
        \A n \in SourceNodes :
            Count(trail, n.path) = IF ~Ignored(n) /\ Reached(n.path) THEN 1 ELSE 0

\* A finished run that processed an entry inside a source directory.
CompletenessWitness ==
    /\ pc = "done"
    /\ \E n \in SourceNodes : Len(n.path) > 2 /\ Count(trail, n.path) = 1

ContentVerdict ==
    lastEntry.how = "hashed" =>
        LET h == lastEntry.hashes
            names == lastEntry.allNames
            wrong == WrongHashes(lastEntry)
        IN  /\ lastEntry.deltaMatched = Cardinality((2..Len(h)) \ wrong)
            /\ lastEntry.deltaMismatched =
                  Cardinality(wrong) + Cardinality(OtherKind(lastEntry))
            /\ lastEntry.deltaMissing =
                  Len(lastEntry.dirNames) - Len(names) - Cardinality(OtherKind(lastEntry))
            /\ \A k \in 2..Len(h) :
                  Count(console, Report("WRONG HASH", names[k]))
                      = IF k \in wrong THEN 1 ELSE 0

\* Two targets whose digests agree with each other and not with the source.
ContentWitness ==
    /\ lastEntry.how = "hashed"
    /\ Len(lastEntry.hashes) = 3
    /\ lastEntry.hashes[2] = lastEntry.hashes[3]
    /\ lastEntry.hashes[2] # lastEntry.hashes[1]
    /\ lastEntry.deltaMismatched = 2

\* The copies of the file being compared: the source and the targets of the
\* call that hold a file of its name.
PresentCopies ==
    {j \in 1..Len(Top.dirNames) :
        LET p == Join(Top.dirNames[j], CurEntry.name)
        IN  Exists(fs, p) /\ ~IsDir(fs, p)}

\* C9 (join before judging): while a file is compared there is one task and
\* one slot per present copy, at most as many as directory arguments; a slot
\* is written exactly when its own task has finished; the wait group counts
\* the running tasks; and the digests a verdict was made from were all written.
JoinBeforeJudging ==
    /\ hashing.active =>
         /\ Len(hashing.hashes) = Cardinality(PresentCopies)
         /\ Len(hashing.allNames) = Len(hashing.hashes)
         /\ Len(hashing.hashes) <= Len(cfg.entries)
         /\ hashing.running \subseteq DOMAIN hashing.hashes
         /\ hashing.wg = Cardinality(hashing.running)
         /\ \A idx \in DOMAIN hashing.hashes :
              (hashing.hashes[idx] = NilHash) <=> (idx \in hashing.running)
    /\ lastEntry.how = "hashed" =>
         \A k \in DOMAIN lastEntry.hashes : lastEntry.hashes[k] # NilHash

\* Three tasks were started, two have finished and the walk still waits.
JoinWitness ==
    /\ hashing.active
    /\ Len(hashing.hashes) = 3
    /\ hashing.wg = 1
    /\ lastEntry.how = "none"

\* ------------------------------------------------------------------------
\* deleteDupes: the dedupe walk over the source tree
\* ------------------------------------------------------------------------

\* The tree under the source holds at most this many entries.
MaxDedupeEntries == 4

\* An entry of that tree lies at most this many names below the source.
MaxDedupeLevels == 2

\* In this walk every file carries the bytes hashFile will read from it.
FileNode(path, content) == [path |-> path, isDir |-> FALSE, content |-> content]

DirNode(path) == [path |-> path, isDir |-> TRUE, content |-> ""]

DedupePaths == {Roots[1] \o rel : rel \in RelPaths(MaxDedupeLevels) \ {<<>>}}

DedupeNodes ==
    {DirNode(p) : p \in DedupePaths} \cup
    {FileNode(p, c) : p \in DedupePaths, c \in Contents}

DedupeForests == Forests(DedupeNodes, MaxDedupeEntries)

\* -delete-dupes needs one positional argument and uses the first only.
DedupeConfigs ==
    {[getConfig(SubSeq(Roots, 1, 1), d, FALSE, sys) EXCEPT !.deleteDupes = TRUE] :
        d \in -1..MaxDepthOpt, sys \in BOOLEAN}

\* hashFile(fullName): the digest of the bytes of the file.
hashFile(fsys, fullName) ==
    Blake2b((CHOOSE n \in fsys : n.path = fullName).content)

\* A map insertion that is lost.
Forget(hashes, h) == hashes

\* hashes[h] = struct{}{}
Remember(hashes, h) == hashes \cup {h}

\* os.Remove(fullName)
Remove(fsys, fullName) == {n \in fsys : n.path # fullName}

\* The entry of deleteDupes: the listing is read and the budget is split.
deleteDupesCall(progressValue, dirName, depth) ==
    LET fileInfos == getFileList(fs, dirName)
        split == splitProgressValue(progressValue, Len(fileInfos))
    IN  [dirName |-> dirName,
         fileInfos |-> fileInfos,
         i |-> 0,
         progressValue |-> progressValue,
         progressChunk |-> split.chunk,
         progressExtra |-> split.extra,
         depth |-> depth,
         entryProgress |-> stats.progress]

DupEntry == Top.fileInfos[Top.i + 1]

DupFullName == Join(Top.dirName, DupEntry.name)

DupIgnored == IgnoreRule(cfg, DupFullName, DupEntry.name, DupEntry.isDir)

DupAtEntry ==
    /\ pc = "dedupe"
    /\ Top.i < Len(Top.fileInfos)

\* main: deleteDupes(cfg, 100.0, cfg.entries[0], cfg.depth, map[[32]byte]struct{}{})
StartDedupe ==
    /\ pc = "start"
    /\ pc' = "dedupe"
    /\ stack' = <<deleteDupesCall(ProgressTotal, cfg.entries[1], cfg.depth)>>
    /\ seenHashes' = {}
    /\ UNCHANGED <<notDedupe, fs, cfg, stats, console, trail, lastEntry, lastCall, removed>>

\* An entry matching the ignore rule.
DupIgnoreEntry ==
    /\ DupAtEntry
    /\ DupIgnored
    /\ stats' = [stats EXCEPT !.progress = @ + Top.progressChunk, !.ignored = @ + 1]
    /\ stack' = ReplaceTop(NextEntry(Top))
    /\ UNCHANGED <<notDedupe, fs, cfg, pc, console, trail, lastEntry, lastCall, dupVars>>

\* A directory within the depth limit: the recursive call, with the same map.
DupDescendEntry ==
    /\ DupAtEntry
    /\ ~DupIgnored
    /\ DupEntry.isDir
    /\ Top.depth # 0
    /\ stats' = [stats EXCEPT !.currentPath = DupFullName]
    /\ trail' = Append(trail, DupFullName)
    /\ stack' = Append(stack, deleteDupesCall(Top.progressChunk, DupFullName, Top.depth - 1))
    /\ UNCHANGED <<notDedupe, fs, cfg, pc, console, lastEntry, lastCall, dupVars>>

\* A directory at the depth limit: only its share of the progress is added.
DupSkipDir ==
    /\ DupAtEntry
    /\ ~DupIgnored
    /\ DupEntry.isDir
    /\ Top.depth = 0
    /\ stats' = [stats EXCEPT !.currentPath = DupFullName,
                              !.progress = @ + Top.progressChunk]
    /\ trail' = Append(trail, DupFullName)
    /\ stack' = ReplaceTop(NextEntry(Top))
    /\ UNCHANGED <<notDedupe, fs, cfg, pc, console, lastEntry, lastCall, dupVars>>

\* A file: a digest seen before gets the file deleted, a new one is recorded.
DupFileEntry ==
    /\ DupAtEntry
    /\ ~DupIgnored
    /\ ~DupEntry.isDir
    /\ LET h == hashFile(fs, DupFullName)
       IN  IF h \in seenHashes
           THEN /\ fs' = Remove(fs, DupFullName)
                /\ removed' = removed \cup {n \in fs : n.path = DupFullName}
                /\ stats' = [stats EXCEPT !.currentPath = DupFullName,
                                          !.progress = @ + Top.progressChunk,
                                          !.matched = @ + 1]
                /\ UNCHANGED seenHashes
           ELSE /\ seenHashes' = Remember(seenHashes, h)
                /\ stats' = [stats EXCEPT !.currentPath = DupFullName,
                                          !.progress = @ + Top.progressChunk,
                                          !.mismatched = @ + 1]
                /\ UNCHANGED <<fs, removed>>
    /\ trail' = Append(trail, DupFullName)
    /\ stack' = ReplaceTop(NextEntry(Top))
    /\ UNCHANGED <<notDedupe, cfg, pc, console, lastEntry, lastCall>>

\* A recursive call is through its listing and returns; the caller continues
\* with its next entry without adding progress of its own.
DupReturnFromDir ==
    /\ pc = "dedupe"
    /\ Len(stack) > 1
    /\ Top.i = Len(Top.fileInfos)
    /\ stats' = [stats EXCEPT !.currentPath = NoPath, !.progress = @ + Top.progressExtra]
    /\ lastCall' = [returned |-> TRUE, dirNames |-> <<Top.dirName>>,
                    progressValue |-> Top.progressValue,
                    consumed |-> stats.progress + Top.progressExtra - Top.entryProgress]
    /\ stack' = Append(SubSeq(stack, 1, Len(stack) - 2), NextEntry(stack[Len(stack) - 1]))
    /\ UNCHANGED <<notDedupe, fs, cfg, pc, console, trail, lastEntry, dupVars>>

\* The top-level call is through its listing and returns to main.
FinishDedupe ==
    /\ pc = "dedupe"
    /\ Len(stack) = 1
    /\ Top.i = Len(Top.fileInfos)
    /\ stats' = [stats EXCEPT !.currentPath = NoPath, !.progress = @ + Top.progressExtra]
    /\ lastCall' = [returned |-> TRUE, dirNames |-> <<Top.dirName>>,
                    progressValue |-> Top.progressValue,
                    consumed |-> stats.progress + Top.progressExtra - Top.entryProgress]
    /\ stack' = <<>>
    /\ pc' = "done"
    /\ UNCHANGED <<notDedupe, fs, cfg, console, trail, lastEntry, dupVars>>

DedupeInit ==
    /\ cfg \in DedupeConfigs
    /\ fs \in DedupeForests
    /\ pc = "start"
    /\ stack = <<>>
    /\ hashing = NoHashing
    /\ stats = ZeroStats
    /\ console = <<>>
    /\ trail = <<>>
    /\ lastEntry = NoEntry
    /\ lastCall = NoCall
    /\ seenHashes = {}
    /\ removed = {}
    /\ ensured = {}
    /\ lastDb = NoDbCall
    /\ dbSteps = 0
    /\ NoDisplayTask
    /\ FirstRun

DedupeNext ==
    \/ StartDedupe
    \/ DupIgnoreEntry
    \/ DupDescendEntry
    \/ DupSkipDir
    \/ DupFileEntry
    \/ DupReturnFromDir
    \/ FinishDedupe

SpecDedupe == DedupeInit /\ [][DedupeNext]_vars

\* ------------------------------------------------------------------------
\* Properties of the dedupe walk (SpecDedupe)
\* ------------------------------------------------------------------------

Rank(name) == CHOOSE k \in 1..Len(NameOrder) : NameOrder[k] = name

\* Walk order: directories are listed sorted by name and a directory is walked
\* where it is listed, so path p comes before path q when p has the smaller
\* name at the first place they differ.
Before(p, q) ==
    \E k \in 1..Len(p) :
        /\ k <= Len(q)
        /\ \A j \in 1..(k - 1) : p[j] = q[j]
        /\ p[k] # q[k]
        /\ Rank(p[k]) < Rank(q[k])

\* The tree as it was before the walk.
TreeBefore == fs \cup removed

\* The files the walk hashes: not ignored, every directory above them not
\* ignored and within the depth limit.
DupVisited(n) ==
    /\ ~n.isDir
    /\ ~Ignored(n)
    /\ \A len \in 2..(Len(n.path) - 1) :
          LET q == SubSeq(n.path, 1, len)
          IN  ~IgnoreRule(cfg, q, Base(q), TRUE) /\ cfg.depth # len - 2

\* C6 (dedupe determinism): after the walk a visited file is still on disk
\* exactly when no visited file of the same content comes before it in walk
\* order, so of every content the first visited file and only that one
\* remains and a file of unique content is untouched; nothing else is deleted.
DedupeDeterminism ==
    pc = "done" =>
        LET visited == {n \in TreeBefore : DupVisited(n)}
        IN  /\ fs \cap removed = {}
            /\ \A n \in TreeBefore \ visited : n \in fs
            /\ \A n \in visited :
                  (n \in fs) <=>
                      ~\E m \in visited : m.content = n.content /\ Before(m.path, n.path)
            /\ \A n \in visited : Count(trail, n.path) = 1

\* A finished walk that deleted a file in one subdirectory as the duplicate
\* of a file in a sibling subdirectory, and left a file of other content.
DedupeWitness ==
    /\ pc = "done"
    /\ \E r \in removed, m \in fs :
          /\ Len(r.path) = 3
          /\ Len(m.path) = 3
          /\ ~m.isDir
          /\ m.content = r.content
          /\ Parent(m.path) # Parent(r.path)

\* ------------------------------------------------------------------------
\* The hash database: initDB, verifyDB, ensureDBEntry, hasDBEntry
\* ------------------------------------------------------------------------

\* The database calls of one run are at most this many.
MaxDbCalls == 4

\* An origin path is at most this many characters long.
MaxEntryLen == 2

\* const dbDirectory = "BraheDB"
dbDirectory == "BraheDB"

\* The characters of an origin path: a letter and the line feed, which a file
\* name may hold on every system but Windows.
EntryChars == {"a", "\n"}

RECURSIVE Strings(_)
Strings(k) ==
    IF k = 0 THEN {""}
    ELSE LET prev == Strings(k - 1)
         IN  prev \cup {str \o c : str \in prev, c \in EntryChars}

\* fullName is filepath.Join(dirName, name): never empty.
DbEntries == Strings(MaxEntryLen) \ {""}

DbDigests == {Blake2b(c) : c \in Contents \cup {"Z"}}

HexDigits == "0123456789abcdef"

HexDigit(d) == SubSeq(HexDigits, d + 1, d + 1)

\* fmt.Sprintf("%x", hash): two digits for every byte.
RECURSIVE SprintfHex(_)
SprintfHex(hash) ==
    IF hash = <<>> THEN ""
    ELSE HexDigit(Head(hash) \div 16) \o HexDigit(Head(hash) % 16) \o SprintfHex(Tail(hash))

\* strings.Split(str, "\n"): the pieces between the line feeds, one more than
\* there are line feeds.
RECURSIVE SplitFrom(_, _, _)
SplitFrom(str, k, piece) ==
    IF k > Len(str) THEN <<piece>>
    ELSE IF SubSeq(str, k, k) = "\n" THEN <<piece>> \o SplitFrom(str, k + 1, "")
    ELSE SplitFrom(str, k + 1, piece \o SubSeq(str, k, k))

SplitLines(str) == SplitFrom(str, 1, "")

\* filepath.Join(parentDir, dbDirectory, hashHex[:2])
hashFileDir(parentDir, hash) ==
    Join(Join(parentDir, dbDirectory), SubSeq(SprintfHex(hash), 1, 2))

\* filepath.Join(hashFileDir, hashHex[2:])
hashFilePath(parentDir, hash) ==
    LET hashHex == SprintfHex(hash)
    IN  Join(hashFileDir(parentDir, hash), SubSeq(hashHex, 3, Len(hashHex)))

\* os.Mkdir: it fails when the path exists, or when the directory above it is
\* neither an argument of the run nor a directory.
Mkdir(fsys, path) ==
    IF Exists(fsys, path) THEN [err |-> "exist", fs |-> fsys]
    ELSE IF Len(path) > 2 /\ ~IsDir(fsys, Parent(path)) THEN [err |-> "other", fs |-> fsys]
    ELSE [err |-> "", fs |-> fsys \cup {DirNode(path)}]

ReadAll(fsys, path) == (CHOOSE n \in fsys : n.path = path).content

\* os.OpenFile(hashFileName, os.O_CREATE|os.O_APPEND|os.O_RDWR, 0644)
OpenFile(fsys, path) ==
    IF Exists(fsys, path)
    THEN [err |-> IF IsDir(fsys, path) THEN "other" ELSE "", fs |-> fsys]
    ELSE IF ~IsDir(fsys, Parent(path)) THEN [err |-> "other", fs |-> fsys]
    ELSE [err |-> "", fs |-> fsys \cup {FileNode(path, "")}]

\* f.WriteString(str) on a file opened with O_APPEND
WriteString(fsys, path, str) ==
    {n \in fsys : n.path # path} \cup {FileNode(path, ReadAll(fsys, path) \o str)}

\* ensureDBEntry: what it leaves on disk, whether it panicked, and its result.
ensureDBEntry(fsys, parentDir, hash, entry) ==
    LET made == Mkdir(fsys, hashFileDir(parentDir, hash))
        hashFileName == hashFilePath(parentDir, hash)
        opened == OpenFile(made.fs, hashFileName)
    IN  IF made.err = "other" THEN [panic |-> TRUE, fs |-> made.fs, modified |-> FALSE]
        ELSE IF opened.err # "" THEN [panic |-> TRUE, fs |-> opened.fs, modified |-> FALSE]
        ELSE LET lines == SplitLines(ReadAll(opened.fs, hashFileName))
             IN  IF \E k \in 1..Len(lines) : lines[k] = entry
                 THEN [panic |-> FALSE, fs |-> opened.fs, modified |-> FALSE]
                 ELSE [panic |-> FALSE,
                       fs |-> WriteString(opened.fs, hashFileName, entry \o "\n"),
                       modified |-> TRUE]

\* A lookup that is content with the shard directory of the digest.
hasDBShard(fsys, parentDir, hash) == Exists(fsys, hashFileDir(parentDir, hash))

\* A lookup that expects the entry file next to the shard directories.
hasDBEntryUnsharded(fsys, parentDir, hash) ==
    Exists(fsys, Join(Join(parentDir, dbDirectory), SprintfHex(hash)))

\* hasDBEntry: os.Stat of the entry file succeeds.
hasDBEntry(fsys, parentDir, hash) == Exists(fsys, hashFilePath(parentDir, hash))

ContentOf(fsys, path) == IF Exists(fsys, path) THEN ReadAll(fsys, path) ELSE ""

DbReady == pc = "db" /\ dbSteps < MaxDbCalls

\* initDB(parentDir): "already exists" is not an error.
InitDB(parentDir) ==
    /\ DbReady
    /\ fs' = Mkdir(fs, Join(parentDir, dbDirectory)).fs
    /\ lastDb' = [NoDbCall EXCEPT !.op = "init", !.parentDir = parentDir]
    /\ dbSteps' = dbSteps + 1
    /\ UNCHANGED <<notDb, pc, ensured>>

\* verifyDB(parentDir): fatal without a database directory.
VerifyDB(parentDir) ==
    /\ DbReady
    /\ pc' = IF IsDir(fs, Join(parentDir, dbDirectory)) THEN pc ELSE "panic"
    /\ lastDb' = [NoDbCall EXCEPT !.op = "verify", !.parentDir = parentDir]
    /\ dbSteps' = dbSteps + 1
    /\ UNCHANGED <<notDb, fs, ensured>>

\* One call of ensureDBEntry(parentDir, hash, entry).
EnsureDBEntry(parentDir, hash, entry) ==
    /\ DbReady
    /\ LET r == ensureDBEntry(fs, parentDir, hash, entry)
           hashFileName == hashFilePath(parentDir, hash)
       IN  /\ fs' = r.fs
           /\ pc' = IF r.panic THEN "panic" ELSE pc
           /\ ensured' = IF r.panic THEN ensured
                         ELSE ensured \cup {<<parentDir, hash, entry>>}
           /\ lastDb' = [op |-> IF r.panic THEN "panic" ELSE "ensure",
                         parentDir |-> parentDir, hash |-> hash, entry |-> entry,
                         repeated |-> <<parentDir, hash, entry>> \in ensured,
                         modified |-> r.modified,
                         found |-> FALSE,
                         before |-> ContentOf(fs, hashFileName),
                         after |-> ContentOf(r.fs, hashFileName)]
    /\ dbSteps' = dbSteps + 1
    /\ UNCHANGED notDb

\* One call of hasDBEntry(parentDir, hash).
HasDBEntry(parentDir, hash) ==
    /\ DbReady
    /\ lastDb' = [NoDbCall EXCEPT !.op = "has", !.parentDir = parentDir, !.hash = hash,
                                  !.found = hasDBEntry(fs, parentDir, hash)]
    /\ dbSteps' = dbSteps + 1
    /\ UNCHANGED <<notDb, fs, pc, ensured>>

\* A run with a source and one target; no database exists yet.
DbConfig == getConfig(SubSeq(Roots, 1, 2), -1, FALSE, FALSE)

DbInit ==
    /\ cfg = DbConfig
    /\ fs = {}
    /\ pc = "db"
    /\ stack = <<>>
    /\ hashing = NoHashing
    /\ stats = ZeroStats
    /\ console = <<>>
    /\ trail = <<>>
    /\ lastEntry = NoEntry
    /\ lastCall = NoCall
    /\ seenHashes = {}
    /\ removed = {}
    /\ ensured = {}
    /\ lastDb = NoDbCall
    /\ dbSteps = 0
    /\ NoDisplayTask
    /\ FirstRun

DbRoots == {cfg.entries[k] : k \in 1..Len(cfg.entries)}

DbNext ==
    \/ \E parentDir \in DbRoots : InitDB(parentDir)
    \/ \E parentDir \in DbRoots : VerifyDB(parentDir)
    \/ \E parentDir \in DbRoots, hash \in DbDigests : HasDBEntry(parentDir, hash)
    \/ \E parentDir \in DbRoots, hash \in DbDigests, entry \in DbEntries :
          EnsureDBEntry(parentDir, hash, entry)

SpecDB == DbInit /\ [][DbNext]_vars

\* ------------------------------------------------------------------------
\* Properties of the hash database (SpecDB)
\* ------------------------------------------------------------------------

HasLineFeed(str) == \E k \in 1..Len(str) : SubSeq(str, k, k) = "\n"

\* C5 (database idempotence) as stated: a call of ensureDBEntry with a root,
\* digest and origin path that an earlier call was made with returns false and
\* leaves the content of the entry file as it was.
DatabaseIdempotence ==
    (lastDb.op = "ensure" /\ lastDb.repeated) =>
        ~lastDb.modified /\ lastDb.after = lastDb.before

\* What ensureDBEntry does keep: the same for origin paths without a line feed.
OneLineIdempotence ==
    (lastDb.op = "ensure" /\ lastDb.repeated /\ ~HasLineFeed(lastDb.entry)) =>
        ~lastDb.modified /\ lastDb.after = lastDb.before

\* A repeated call for a one-line origin path, on a file that lists two paths.
OneLineWitness ==
    /\ lastDb.op = "ensure"
    /\ lastDb.repeated
    /\ ~HasLineFeed(lastDb.entry)
    /\ Len(SplitLines(lastDb.before)) = 3

\* The lines of an entry file: the pieces that end in a line feed.
EntryLines(content) ==
    LET pieces == SplitLines(content) IN SubSeq(pieces, 1, Len(pieces) - 1)

\* The number of lines that are the origin path.
Occurrences(lines, entry) == Cardinality({k \in 1..Len(lines) : lines[k] = entry})

IsPrefix(str, longer) ==
    Len(str) <= Len(longer) /\ SubSeq(longer, 1, Len(str)) = str

\* The origin paths recorded in the entry file of a root and digest.
RecordedIn(parentDir, hash) == {e[3] : e \in {c \in ensured : c[1] = parentDir /\ c[2] = hash}}

\* C24 (entry-file invariant) as stated: no origin path that ensureDBEntry was
\* called with is on more than one line of its entry file, and a call leaves
\* the content that was there in place and only appends to it.
EntryFileInvariant ==
    /\ \A e \in ensured :
          Occurrences(EntryLines(ContentOf(fs, hashFilePath(e[1], e[2]))), e[3]) <= 1
    /\ lastDb.op = "ensure" => IsPrefix(lastDb.before, lastDb.after)

\* What ensureDBEntry does keep: every call only appends, and in an entry
\* file whose recorded origin paths are all free of line feeds each of them
\* is on exactly one line.
EntryFileGrows ==
    /\ lastDb.op = "ensure" => IsPrefix(lastDb.before, lastDb.after)
    /\ \A e \in ensured :
          (\A entry \in RecordedIn(e[1], e[2]) : ~HasLineFeed(entry)) =>
              Occurrences(EntryLines(ContentOf(fs, hashFilePath(e[1], e[2]))), e[3]) = 1

\* A call has appended a second origin path to an entry file, and both paths
\* are one line each.
EntryFileWitness ==
    /\ lastDb.op = "ensure"
    /\ lastDb.modified
    /\ lastDb.before # ""
    /\ Cardinality(RecordedIn(lastDb.parentDir, lastDb.hash)) = 2
    /\ \A entry \in RecordedIn(lastDb.parentDir, lastDb.hash) : ~HasLineFeed(entry)

\* ------------------------------------------------------------------------
\* findGaps: the gap finder
\* ------------------------------------------------------------------------

\* The directory arguments hold at most this many entries together.
MaxGapEntries == 2

\* The range of -find-gaps begins and ends in 1 .. MaxSeq.
MaxSeq == 3

\* The width of -find-gaps is in 1 .. MaxWidth.
MaxWidth == 2

\* The names a directory argument can hold, in the order ioutil.ReadDir
\* returns them (sorted by name, byte by byte).
GapNameOrder ==
    <<"IMG_01.JPG", "IMG_02.JPG", "IMG_1.JPG", "IMG_2.JPG", "notes.txt">>

DecimalDigits == "0123456789"

\* The decimal numeral of a natural number.
RECURSIVE Decimal(_)
Decimal(n) ==
    IF n < 10 THEN SubSeq(DecimalDigits, n + 1, n + 1)
    ELSE Decimal(n \div 10) \o SubSeq(DecimalDigits, (n % 10) + 1, (n % 10) + 1)

\* The number a decimal numeral stands for.
RECURSIVE ParseDecimal(_)
ParseDecimal(str) ==
    IF str = "" THEN 0
    ELSE LET last == SubSeq(str, Len(str), Len(str))
             d == CHOOSE v \in 0..9 : SubSeq(DecimalDigits, v + 1, v + 1) = last
         IN  10 * ParseDecimal(SubSeq(str, 1, Len(str) - 1)) + d

\* GapOpts.GetFormat: fmt.Sprintf("%s%%0%dd%s", prefix, width, suffix)
GetFormat(gopt) == gopt.prefix \o "%0" \o Decimal(gopt.width) \o "d" \o gopt.suffix

RECURSIVE ZeroPad(_, _)
ZeroPad(str, width) == IF Len(str) >= width THEN str ELSE ZeroPad("0" \o str, width)

\* fmt.Sprintf(gapFormat, seq) for a format with one verb, %0<width>d: the
\* text before the verb, the number padded with zeros to the width, the text
\* after the verb.
Sprintf(format, seq) ==
    LET First(from, c) ==
            CHOOSE k \in from..Len(format) :
                /\ SubSeq(format, k, k) = c
                /\ \A j \in from..(k - 1) : SubSeq(format, j, j) # c
        percent == First(1, "%")
        verb == First(percent + 1, "d")
        width == ParseDecimal(SubSeq(format, percent + 1, verb - 1))
    IN  SubSeq(format, 1, percent - 1)
          \o ZeroPad(Decimal(seq), width)
          \o SubSeq(format, verb + 1, Len(format))

\* gapOptsValue.Set for the patterns IMG_/<width>:<begin>-<end>/.JPG
GapOptions ==
    {[prefix |-> "IMG_", suffix |-> ".JPG", width |-> w, begin |-> b, end |-> e] :
        w \in 1..MaxWidth, b \in 1..MaxSeq, e \in 1..MaxSeq}

\* -find-gaps needs one directory argument and takes more.
GapConfigs ==
    {[getConfig(SubSeq(Roots, 1, n), -1, FALSE, FALSE) EXCEPT !.gapOpts = gopt] :
        n \in 1..2, gopt \in GapOptions}

GapNodes ==
    {Node(Join(Roots[r], GapNameOrder[k]), d) :
        r \in 1..2, k \in 1..Len(GapNameOrder), d \in BOOLEAN}

GapForests == Forests(GapNodes, MaxGapEntries)

\* The expected names begin .. end, none of them found yet.
NoneFound(gopt) ==
    [name \in {Sprintf(GetFormat(gopt), seq) : seq \in gopt.begin..gopt.end} |-> FALSE]

\* An entry that is a directory marks its name found as well.
MarksAnyEntry(isDir) == TRUE

\* if !isDir { ... foundFiles[name] = true }
Marks(isDir) == ~isDir

\* The entry of findGaps, up to the first round of the loop over i.
findGapsCall(progressValue, dirNames) ==
    LET allFileInfos == [i \in 1..Len(dirNames) |-> ReadDir(GapNameOrder, fs, dirNames[i])]
        count == LET RECURSIVE Sum(_)
                     Sum(i) == IF i = 0 THEN 0 ELSE Sum(i - 1) + Len(allFileInfos[i])
                 IN  Sum(Len(allFileInfos))
        split == splitProgressValue(progressValue, count)
    IN  [dirNames |-> dirNames,
         allFileInfos |-> allFileInfos,
         i |-> 1,
         j |-> 0,
         foundFiles |-> NoneFound(cfg.gapOpts),
         progressValue |-> progressValue,
         progressChunk |-> split.chunk,
         progressExtra |-> split.extra,
         entryProgress |-> stats.progress]

\* foundFiles[name], false for a name the map does not hold
Found(foundFiles, name) == name \in DOMAIN foundFiles /\ foundFiles[name]

\* main: findGaps(cfg, 100.0, cfg.entries)
StartGaps ==
    /\ pc = "start"
    /\ pc' = "gaps"
    /\ stack' = <<findGapsCall(ProgressTotal, cfg.entries)>>
    /\ stats' = [stats EXCEPT !.missing =
                    Len(cfg.entries) * (cfg.gapOpts.end - cfg.gapOpts.begin + 1)]
    /\ UNCHANGED <<notGaps, fs, cfg, console>>

\* One round of the loop over j: an entry of directory i.
GapEntry ==
    /\ pc = "gaps"
    /\ Top.i <= Len(Top.dirNames)
    /\ Top.j < Len(Top.allFileInfos[Top.i])
    /\ LET entry == Top.allFileInfos[Top.i][Top.j + 1]
           foundFiles ==
               IF Marks(entry.isDir) /\ entry.name \in DOMAIN Top.foundFiles
               THEN [Top.foundFiles EXCEPT ![entry.name] = TRUE]
               ELSE Top.foundFiles
           found == Found(foundFiles, entry.name)
       IN  /\ stack' = ReplaceTop([Top EXCEPT !.j = @ + 1, !.foundFiles = foundFiles])
           /\ stats' = [stats EXCEPT
                           !.currentPath = Join(Top.dirNames[Top.i], entry.name),
                           !.progress = @ + Top.progressChunk,
                           !.matched = IF found THEN @ + 1 ELSE @,
                           !.missing = IF found THEN @ - 1 ELSE @]
    /\ UNCHANGED <<notGaps, fs, cfg, pc, console>>

\* The names of begin .. end that foundFiles does not have as found, in order.
StillMissing(gopt, foundFiles) ==
    LET names == [k \in 1..(gopt.end - gopt.begin + 1) |->
                     Sprintf(GetFormat(gopt), gopt.begin + k - 1)]
        NotFound(name) == ~Found(foundFiles, name)
    IN  SelectSeq(names, NotFound)

\* Directory i is through: every name still not found is reported, and the
\* loop over i goes on with a new map.
GapReport ==
    /\ pc = "gaps"
    /\ Top.i <= Len(Top.dirNames)
    /\ Top.j = Len(Top.allFileInfos[Top.i])
    /\ LET names == StillMissing(cfg.gapOpts, Top.foundFiles)
       IN  console' = console \o [k \in 1..Len(names) |-> Report("MISSING", names[k])]
    /\ stack' = ReplaceTop([Top EXCEPT !.i = @ + 1, !.j = 0,
                                       !.foundFiles = NoneFound(cfg.gapOpts)])
    /\ UNCHANGED <<notGaps, fs, cfg, pc, stats>>

\* The loop over i is through: findGaps returns to main.
FinishGaps ==
    /\ pc = "gaps"
    /\ Top.i > Len(Top.dirNames)
    /\ stats' = [stats EXCEPT !.currentPath = NoPath, !.progress = @ + Top.progressExtra]
    /\ stack' = <<>>
    /\ pc' = "done"
    /\ UNCHANGED <<notGaps, fs, cfg, console>>

GapsInit ==
    /\ cfg \in GapConfigs
    /\ fs \in InitFs(cfg, GapForests)
    /\ pc = "start"
    /\ stack = <<>>
    /\ hashing = NoHashing
    /\ stats = ZeroStats
    /\ console = <<>>
    /\ trail = <<>>
    /\ lastEntry = NoEntry
    /\ lastCall = NoCall
    /\ seenHashes = {}
    /\ removed = {}
    /\ ensured = {}
    /\ lastDb = NoDbCall
    /\ dbSteps = 0
    /\ NoDisplayTask
    /\ FirstRun

GapsNext ==
    \/ StartGaps
    \/ GapEntry
    \/ GapReport
    \/ FinishGaps

SpecGaps == GapsInit /\ [][GapsNext]_vars

\* ------------------------------------------------------------------------
\* Properties of the gap finder (SpecGaps)
\* ------------------------------------------------------------------------

\* The directory has an entry of that name that is not a directory.
HasFile(dirName, name) == Exists(fs, Join(dirName, name)) /\ ~IsDir(fs, Join(dirName, name))

\* The reports due for one directory: the names of begin .. end, in order,
\* that the directory has no file of.
MissingIn(dirName) ==
    LET gopt == cfg.gapOpts
        names == [k \in 1..(gopt.end - gopt.begin + 1) |->
                     Sprintf(GetFormat(gopt), gopt.begin + k - 1)]
        Lacks(name) == ~HasFile(dirName, name)
        lacking == SelectSeq(names, Lacks)
    IN  [k \in 1..Len(lacking) |-> Report("MISSING", lacking[k])]

RECURSIVE MissingUpTo(_)
MissingUpTo(d) == IF d = 0 THEN <<>> ELSE MissingUpTo(d - 1) \o MissingIn(cfg.entries[d])

\* The directories findGaps has reported on.
GapsReported ==
    CASE pc = "gaps" -> Top.i - 1
      [] pc = "done" -> Len(cfg.entries)
      [] OTHER -> 0

\* C7 (gap detection): the MISSING reports are, directory argument after
\* directory argument, exactly the names formatted from begin .. end that the
\* directory has no non-directory entry of, each once; a directory of such a
\* name does not make the name found.
GapDetection == console = MissingUpTo(GapsReported)

\* A finished run over a directory that holds a file of one expected name and
\* a directory of another: the second name is reported, the first is not.
GapWitness ==
    /\ pc = "done"
    /\ cfg.gapOpts.width = 2
    /\ HasFile(cfg.entries[1], "IMG_01.JPG")
    /\ IsDir(fs, Join(cfg.entries[1], "IMG_02.JPG"))
    /\ Count(console, Report("MISSING", "IMG_02.JPG")) = Len(cfg.entries)
    /\ Count(console, Report("MISSING", "IMG_01.JPG")) = Len(cfg.entries) - 1

\* The names formatted from begin .. end that the directory has a file of.
FoundIn(dirName) ==
    {name \in {Sprintf(GetFormat(cfg.gapOpts), seq) :
                  seq \in cfg.gapOpts.begin..cfg.gapOpts.end} : HasFile(dirName, name)}

RECURSIVE FoundUpTo(_)
FoundUpTo(d) ==
    IF d = 0 THEN 0 ELSE FoundUpTo(d - 1) + Cardinality(FoundIn(cfg.entries[d]))

\* C29 (gap counters agree with the reports) as stated: stats.missing is
\* never negative, and once findGaps has returned it is the number of
\* MISSING reports and stats.matched is the number of expected names found,
\* directory argument by directory argument.
GapCounters ==
    /\ stats.missing >= 0
    /\ pc = "done" =>
          /\ stats.missing = Len(console)
          /\ stats.matched = FoundUpTo(Len(cfg.entries))

\* len(dirNames) * (end - begin + 1) where the range is empty by more than
\* one: what findGaps sets stats.missing to although nothing can be reported.
RangeDeficit ==
    IF cfg.gapOpts.end - cfg.gapOpts.begin + 1 < 0
    THEN Len(cfg.entries) * (cfg.gapOpts.end - cfg.gapOpts.begin + 1)
    ELSE 0

\* What findGaps does keep: stats.matched is the number of expected names
\* found, stats.missing is the number of MISSING reports plus the deficit of
\* the range, and it is never negative when end is at least begin - 1.
GapCountersInRange ==
    /\ RangeDeficit = 0 => stats.missing >= 0
    /\ pc = "done" =>
          /\ stats.missing = Len(console) + RangeDeficit
          /\ stats.matched = FoundUpTo(Len(cfg.entries))

\* Two directory arguments and a range of three names: one directory has a
\* file of one of the names, five names were reported.
GapCountersWitness ==
    /\ pc = "done"
    /\ Len(cfg.entries) = 2
    /\ cfg.gapOpts.begin = 1
    /\ cfg.gapOpts.end = 3
    /\ stats.matched = 1
    /\ stats.missing = 5
    /\ Len(console) = 5

\* ------------------------------------------------------------------------
\* main and statsGalore: the driver, the display task and the shutdown
\* ------------------------------------------------------------------------

\* The driver's walk counts this many entries, each under stats.lock.
MaxWalkSteps == 2

\* What the driver and the display task leave alone.
notShutdown ==
    <<fs, cfg, stack, trail, lastEntry, lastCall, dupVars, dbVars, useVars, cliVars>>

\* sync.RWMutex: Lock waits until nobody holds the lock, RLock until no
\* writer does.
CanLock(lock) == lock.writer = "none" /\ lock.readers = {}

CanRLock(lock) == lock.writer = "none"

Lock(lock, who) == [lock EXCEPT !.writer = who]

\* An Unlock that leaves the writer in place.
UnlockForgotten(lock) == lock

Unlock(lock) == [lock EXCEPT !.writer = "none"]

RLock(lock, who) == [lock EXCEPT !.readers = @ \cup {who}]

RUnlock(lock, who) == [lock EXCEPT !.readers = @ \ {who}]

\* sync.Mutex: a Lock that does not wait for the holder.
MutexNeverHeld(holder) == TRUE

\* sync.Mutex: Lock waits until nobody holds the mutex.
MutexFree(holder) == holder = "free"

\* sync.WaitGroup: Wait returns at once, whatever the counter is.
WaitNeverBlocks(wg) == TRUE

\* sync.WaitGroup: Wait returns when the counter is zero.
WaitGroupWaitReturns(wg) == wg = 0

\* The completion line of statsGalore.
Completed == Report("Completed", NoPath)

\* Stats.Clone with a receiver that gives its values away.
AfterMovingClone(st) == ZeroStats

\* Stats.Clone: what is left in the receiver; the clone is a new Stats and
\* the receiver is only read.
AfterClone(st) == st

\* Stats.Clone
Clone(st) ==
    [progress |-> st.progress, currentPath |-> st.currentPath, matched |-> st.matched,
     mismatched |-> st.mismatched, missing |-> st.missing, ignored |-> st.ignored]

\* main: writeToConsole("Starting work .."); nothing else runs yet.
MainStartWork ==
    /\ pc = "start"
    /\ console' = Append(console, Report("Starting work ..", NoPath))
    /\ walkLeft' = MaxWalkSteps
    /\ pc' = "show"
    /\ UNCHANGED <<notShutdown, hashing, stats, dispPc, shutdown, displayInfo, statsLock, statsCache>>

\* main: displayInfo.Show()
MainShow ==
    /\ pc = "show"
    /\ CanLock(displayInfo.lock)
    /\ displayInfo' = [displayInfo EXCEPT !.show = TRUE]
    /\ pc' = "addWorkers"
    /\ UNCHANGED <<notShutdown, hashing, stats, console, dispPc, shutdown, statsLock, statsCache,
                   walkLeft>>

\* main: shutdown.AddWorkers(1)
MainAddWorkers ==
    /\ pc = "addWorkers"
    /\ shutdown' = [shutdown EXCEPT !.wg = @ + 1]
    /\ pc' = "go"
    /\ UNCHANGED <<notShutdown, hashing, stats, console, dispPc, displayInfo, statsLock, statsCache,
                   walkLeft>>

\* main: go statsGalore()
MainGo ==
    /\ pc = "go"
    /\ dispPc' = "check"
    /\ pc' = "work"
    /\ UNCHANGED <<notShutdown, hashing, stats, console, shutdown, displayInfo, statsLock,
                   statsCache, walkLeft>>

\* The walk: stats.lock.Lock() before an entry is counted, be it an entry
\* that needed no hashing or one whose hashing tasks have been joined.
WalkLock ==
    /\ \/ pc = "work" /\ walkLeft > 0
       \/ pc = "judged"
    /\ MutexFree(statsLock)
    /\ statsLock' = "main"
    /\ pc' = "counting"
    /\ UNCHANGED <<notShutdown, hashing, stats, console, dispPc, shutdown, displayInfo, statsCache,
                   walkLeft>>

\* The walk: stats.progress += progressChunk
WalkCount ==
    /\ pc = "counting"
    /\ stats' = [stats EXCEPT
                    !.progress = @ + splitProgressValue(ProgressTotal, MaxWalkSteps).chunk]
    /\ pc' = "counted"
    /\ UNCHANGED <<notShutdown, hashing, console, dispPc, shutdown, displayInfo, statsLock,
                   statsCache, walkLeft>>

\* The walk: stats.matched += deltaMatched, then stats.lock.Unlock().
WalkUnlock ==
    /\ pc = "counted"
    /\ stats' = [stats EXCEPT !.matched = @ + 1]
    /\ statsLock' = "free"
    /\ walkLeft' = walkLeft - 1
    /\ pc' = "work"
    /\ UNCHANGED <<notShutdown, hashing, console, dispPc, shutdown, displayInfo, statsCache>>

\* The walk: a file found in a target; one hashing task per copy is started
\* and the walk is in wg.Wait().
WalkHash ==
    /\ pc = "work"
    /\ walkLeft > 0
    /\ hashing' = [NoHashing EXCEPT !.active = TRUE,
                                    !.allNames = SubSeq(Roots, 1, 2),
                                    !.hashes = <<NilHash, NilHash>>,
                                    !.wg = 2,
                                    !.running = {1, 2},
                                    !.deltaMatched = 1]
    /\ pc' = "hashwait"
    /\ UNCHANGED <<notShutdown, stats, console, dispPc, shutdown, displayInfo, statsLock,
                   statsCache, walkLeft>>

\* A hashing task of the walk: hashFile returns, the task stores the digest
\* in its slot and calls wg.Done().
WalkHashTask(idx) ==
    /\ pc = "hashwait"
    /\ idx \in hashing.running
    /\ hashing' = [hashing EXCEPT !.hashes[TaskSlot(hashing, idx)] = Blake2b("X"),
                                  !.wg = @ - 1,
                                  !.running = @ \ {idx}]
    /\ UNCHANGED <<notShutdown, pc, stats, console, dispPc, shutdown, displayInfo,
                   statsLock, statsCache, walkLeft>>

HashNext == \E idx \in 1..2 : WalkHashTask(idx)

\* The walk: wg.Wait() has returned and the digests are judged.
WalkJudge ==
    /\ pc = "hashwait"
    /\ WaitReturns(hashing)
    /\ hashing' = NoHashing
    /\ pc' = "judged"
    /\ UNCHANGED <<notShutdown, stats, console, dispPc, shutdown, displayInfo, statsLock,
                   statsCache, walkLeft>>

\* The walk is through its listing: stats.lock.Lock()
WalkReturnLock ==
    /\ pc = "work"
    /\ walkLeft = 0
    /\ MutexFree(statsLock)
    /\ statsLock' = "main"
    /\ pc' = "returning"
    /\ UNCHANGED <<notShutdown, hashing, stats, console, dispPc, shutdown, displayInfo,
                   statsCache, walkLeft>>

\* The walk: currentPath = "", progress += progressExtra, stats.lock.Unlock();
\* the call returns to main.
WalkReturnUnlock ==
    /\ pc = "returning"
    /\ stats' = [stats EXCEPT
                    !.currentPath = NoPath,
                    !.progress = @ + splitProgressValue(ProgressTotal, MaxWalkSteps).extra]
    /\ statsLock' = "free"
    /\ pc' = IF cfg.checkDB THEN "returned" ELSE "worked"
    /\ UNCHANGED <<notShutdown, hashing, console, dispPc, shutdown, displayInfo, statsCache,
                   walkLeft>>

\* main, after the calls of a check: stats.lock.Lock()
MainExtraLock ==
    /\ pc = "returned"
    /\ MutexFree(statsLock)
    /\ statsLock' = "main"
    /\ pc' = "extra"
    /\ UNCHANGED <<notShutdown, hashing, stats, console, dispPc, shutdown, displayInfo,
                   statsCache, walkLeft>>

\* main: stats.progress += progressExtra, stats.lock.Unlock()
MainExtraUnlock ==
    /\ pc = "extra"
    /\ stats' = [stats EXCEPT !.progress = @ + splitProgressValue(ProgressTotal, Len(cfg.entries) - 1).extra]
    /\ statsLock' = "free"
    /\ pc' = "worked"
    /\ UNCHANGED <<notShutdown, hashing, console, dispPc, shutdown, displayInfo, statsCache,
                   walkLeft>>

\* The walk: reportMismatch, up to displayInfo.lock.RLock().
WalkReportRLock ==
    /\ pc = "work"
    /\ walkLeft > 0
    /\ CanRLock(displayInfo.lock)
    /\ displayInfo' = [displayInfo EXCEPT !.lock = RLock(@, "main")]
    /\ pc' = "reporting"
    /\ UNCHANGED <<notShutdown, hashing, stats, console, dispPc, shutdown, statsLock, statsCache,
                   walkLeft>>

\* The walk: the report is printed, then displayInfo.lock.RUnlock().
WalkReportRUnlock ==
    /\ pc = "reporting"
    /\ console' = Append(console, Report("MISSING", NoPath))
    /\ displayInfo' = [displayInfo EXCEPT !.lock = RUnlock(@, "main")]
    /\ walkLeft' = walkLeft - 1
    /\ pc' = "work"
    /\ UNCHANGED <<notShutdown, hashing, stats, dispPc, shutdown, statsLock, statsCache>>

\* The walk: a filesystem operation fails in the driver or in a hashing task
\* it waits for; writeToConsole, up to displayInfo.lock.RLock().
WalkFailRLock ==
    /\ pc = "work"
    /\ walkLeft > 0
    /\ CanRLock(displayInfo.lock)
    /\ displayInfo' = [displayInfo EXCEPT !.lock = RLock(@, "main")]
    /\ pc' = "failing"
    /\ UNCHANGED <<notShutdown, hashing, stats, console, dispPc, shutdown, statsLock, statsCache,
                   walkLeft>>

\* The walk: the diagnostic is printed, then panic(""): the process is gone.
WalkPanic ==
    /\ pc = "failing"
    /\ console' = Append(console, Report("Failed", NoPath))
    /\ displayInfo' = [displayInfo EXCEPT !.lock = RUnlock(@, "main")]
    /\ pc' = "panicked"
    /\ UNCHANGED <<notShutdown, hashing, stats, dispPc, shutdown, statsLock, statsCache, walkLeft>>

\* main: displayInfo.Hide(), up to di.lock.Lock().
MainHideLock ==
    /\ pc = "worked"
    /\ CanLock(displayInfo.lock)
    /\ displayInfo' = [displayInfo EXCEPT !.lock = Lock(@, "main")]
    /\ pc' = "hiding"
    /\ UNCHANGED <<notShutdown, hashing, stats, console, dispPc, shutdown, statsLock, statsCache,
                   walkLeft>>

\* main: di.show = false, then di.lock.Unlock().
MainHideUnlock ==
    /\ pc = "hiding"
    /\ displayInfo' = [displayInfo EXCEPT !.show = FALSE, !.lock = Unlock(@)]
    /\ pc' = "hidden"
    /\ UNCHANGED <<notShutdown, hashing, stats, console, dispPc, shutdown, statsLock, statsCache,
                   walkLeft>>

\* main: shutdown.Start(), up to s.lock.Lock().
MainStartLock ==
    /\ pc = "hidden"
    /\ CanLock(shutdown.lock)
    /\ shutdown' = [shutdown EXCEPT !.lock = Lock(@, "main")]
    /\ pc' = "starting"
    /\ UNCHANGED <<notShutdown, hashing, stats, console, dispPc, displayInfo, statsLock, statsCache,
                   walkLeft>>

\* main: s.start = true, then s.lock.Unlock(); then main is in shutdown.Wait().
MainStartUnlock ==
    /\ pc = "starting"
    /\ shutdown' = [shutdown EXCEPT !.start = TRUE, !.lock = Unlock(@)]
    /\ pc' = "wait"
    /\ UNCHANGED <<notShutdown, hashing, stats, console, dispPc, displayInfo, statsLock, statsCache,
                   walkLeft>>

\* main: shutdown.Wait() returns.
MainWaitReturns ==
    /\ pc = "wait"
    /\ WaitGroupWaitReturns(shutdown.wg)
    /\ pc' = "waited"
    /\ UNCHANGED <<notShutdown, hashing, stats, console, dispPc, shutdown, displayInfo, statsLock,
                   statsCache, walkLeft>>

\* main returns: the process terminates.
MainReturns ==
    /\ pc = "waited"
    /\ pc' = "exited"
    /\ UNCHANGED <<notShutdown, hashing, stats, console, dispPc, shutdown, displayInfo, statsLock,
                   statsCache, walkLeft>>

MainNext ==
    \/ MainStartWork
    \/ MainShow
    \/ MainAddWorkers
    \/ MainGo
    \/ WalkLock
    \/ WalkCount
    \/ WalkUnlock
    \/ WalkHash
    \/ WalkJudge
    \/ WalkReturnLock
    \/ WalkReturnUnlock
    \/ MainExtraLock
    \/ MainExtraUnlock
    \/ WalkReportRLock
    \/ WalkReportRUnlock
    \/ WalkFailRLock
    \/ WalkPanic
    \/ MainHideLock
    \/ MainHideUnlock
    \/ MainStartLock
    \/ MainStartUnlock
    \/ MainWaitReturns
    \/ MainReturns

\* A display task that outlives the process.
RunningForever(at) == dispPc = at

\* The display task runs for as long as the process does.
Running(at) == dispPc = at /\ pc \notin {"exited", "panicked"}

\* statsGalore: shutdown.lock.RLock()
DisplayRLock ==
    /\ Running("check")
    /\ CanRLock(shutdown.lock)
    /\ shutdown' = [shutdown EXCEPT !.lock = RLock(@, "display")]
    /\ dispPc' = "checking"
    /\ UNCHANGED <<notShutdown, hashing, pc, stats, console, displayInfo, statsLock, statsCache,
                   walkLeft>>

\* statsGalore: shutdown.start is set; shutdown.lock.RUnlock()
DisplaySeesStart ==
    /\ Running("checking")
    /\ shutdown.start
    /\ shutdown' = [shutdown EXCEPT !.lock = RUnlock(@, "display")]
    /\ dispPc' = "complete"
    /\ UNCHANGED <<notShutdown, hashing, pc, stats, console, displayInfo, statsLock, statsCache,
                   walkLeft>>

\* statsGalore: shutdown.start is not set; shutdown.lock.RUnlock()
DisplaySeesNoStart ==
    /\ Running("checking")
    /\ ~shutdown.start
    /\ shutdown' = [shutdown EXCEPT !.lock = RUnlock(@, "display")]
    /\ dispPc' = "sleep"
    /\ UNCHANGED <<notShutdown, hashing, pc, stats, console, displayInfo, statsLock, statsCache,
                   walkLeft>>

\* statsGalore: stats.lock.Lock() before the completion line
DisplayCompleteLock ==
    /\ Running("complete")
    /\ MutexFree(statsLock)
    /\ statsLock' = "display"
    /\ dispPc' = "completeLocked"
    /\ UNCHANGED <<notShutdown, hashing, pc, stats, console, shutdown, displayInfo, statsCache,
                   walkLeft>>

\* statsGalore: writeToConsole("Completed ..."), up to displayInfo.lock.RLock()
DisplayCompleteRLock ==
    /\ Running("completeLocked")
    /\ CanRLock(displayInfo.lock)
    /\ displayInfo' = [displayInfo EXCEPT !.lock = RLock(@, "display")]
    /\ dispPc' = "completeWriting"
    /\ UNCHANGED <<notShutdown, hashing, pc, stats, console, shutdown, statsLock, statsCache,
                   walkLeft>>

\* statsGalore: the completion line is printed; displayInfo.lock.RUnlock()
DisplayCompleteWrite ==
    /\ Running("completeWriting")
    /\ console' = Append(console, Completed)
    /\ displayInfo' = [displayInfo EXCEPT !.lock = RUnlock(@, "display")]
    /\ dispPc' = "completeWritten"
    /\ UNCHANGED <<notShutdown, hashing, pc, stats, shutdown, statsLock, statsCache, walkLeft>>

\* statsGalore: stats.lock.Unlock() after the completion line
DisplayCompleteUnlock ==
    /\ Running("completeWritten")
    /\ statsLock' = "free"
    /\ dispPc' = "done"
    /\ UNCHANGED <<notShutdown, hashing, pc, stats, console, shutdown, displayInfo, statsCache,
                   walkLeft>>

\* statsGalore: shutdown.wg.Done(); return
DisplayDone ==
    /\ Running("done")
    /\ shutdown' = [shutdown EXCEPT !.wg = @ - 1]
    /\ dispPc' = "exited"
    /\ UNCHANGED <<notShutdown, hashing, pc, stats, console, displayInfo, statsLock, statsCache,
                   walkLeft>>

\* statsGalore: time.Sleep(refreshRate)
DisplaySleep ==
    /\ Running("sleep")
    /\ dispPc' = "sample"
    /\ UNCHANGED <<notShutdown, hashing, pc, stats, console, shutdown, displayInfo, statsLock,
                   statsCache, walkLeft>>

\* statsGalore: stats.lock.Lock() before the clone
DisplaySampleLock ==
    /\ Running("sample")
    /\ MutexFree(statsLock)
    /\ statsLock' = "display"
    /\ dispPc' = "sampling"
    /\ UNCHANGED <<notShutdown, hashing, pc, stats, console, shutdown, displayInfo, statsCache,
                   walkLeft>>

\* statsGalore: stats.Clone() reads progress and currentPath
DisplayCloneProgress ==
    /\ Running("sampling")
    /\ statsCache' = [Clone(ZeroStats) EXCEPT !.progress = stats.progress,
                                              !.currentPath = stats.currentPath]
    /\ dispPc' = "cloning"
    /\ UNCHANGED <<notShutdown, hashing, pc, stats, console, shutdown, displayInfo,
                   statsLock, walkLeft>>

\* statsGalore: stats.Clone() reads the counters; stats.lock.Unlock()
DisplaySampleUnlock ==
    /\ Running("cloning")
    /\ statsCache' = [Clone(stats) EXCEPT !.progress = statsCache.progress,
                                          !.currentPath = statsCache.currentPath]
    /\ stats' = AfterClone(stats)
    /\ statsLock' = "free"
    /\ dispPc' = "render"
    /\ UNCHANGED <<notShutdown, hashing, pc, console, shutdown, displayInfo, walkLeft>>

\* statsGalore: setDisplayInfo(line), up to displayInfo.lock.Lock()
DisplayRenderLock ==
    /\ Running("render")
    /\ CanLock(displayInfo.lock)
    /\ displayInfo' = [displayInfo EXCEPT !.lock = Lock(@, "display")]
    /\ dispPc' = "rendering"
    /\ UNCHANGED <<notShutdown, hashing, pc, stats, console, shutdown, statsLock, statsCache,
                   walkLeft>>

\* statsGalore: displayInfo.line = line; displayInfo.lock.Unlock()
DisplayRenderUnlock ==
    /\ Running("rendering")
    /\ displayInfo' = [displayInfo EXCEPT !.line = statsCache, !.lock = Unlock(@)]
    /\ dispPc' = "check"
    /\ UNCHANGED <<notShutdown, hashing, pc, stats, console, shutdown, statsLock, statsCache,
                   walkLeft>>

DisplayNext ==
    \/ DisplayRLock
    \/ DisplaySeesStart
    \/ DisplaySeesNoStart
    \/ DisplayCompleteLock
    \/ DisplayCompleteRLock
    \/ DisplayCompleteWrite
    \/ DisplayCompleteUnlock
    \/ DisplayDone
    \/ DisplaySleep
    \/ DisplaySampleLock
    \/ DisplayCloneProgress
    \/ DisplaySampleUnlock
    \/ DisplayRenderLock
    \/ DisplayRenderUnlock

\* A comparison and a check: after the calls of a check main adds the
\* remainder of the budget itself.
ShutdownConfigs ==
    {c \in Configs : c.depth = -1 /\ ~c.noData /\ ~c.checkSysNames} \cup
    {[getConfig(Roots, -1, FALSE, FALSE) EXCEPT !.checkDB = TRUE]}

ShutdownInit ==
    /\ cfg \in ShutdownConfigs
    /\ fs = {}
    /\ pc = "start"
    /\ stack = <<>>
    /\ hashing = NoHashing
    /\ stats = ZeroStats
    /\ console = <<>>
    /\ trail = <<>>
    /\ lastEntry = NoEntry
    /\ lastCall = NoCall
    /\ seenHashes = {}
    /\ removed = {}
    /\ ensured = {}
    /\ lastDb = NoDbCall
    /\ dbSteps = 0
    /\ NoDisplayTask
    /\ FirstRun

ShutdownNext ==
    \/ MainNext
    \/ HashNext
    \/ DisplayNext

\* The Go scheduler runs every goroutine that can take a step: the driver,
\* the hashing tasks and the display task each keep going while they are not
\* blocked.
SpecShutdown ==
    /\ ShutdownInit
    /\ [][ShutdownNext]_vars
    /\ WF_vars(MainNext)
    /\ WF_vars(HashNext)
    /\ WF_vars(DisplayNext)

\* ------------------------------------------------------------------------
\* Properties of the shutdown (SpecShutdown)
\* ------------------------------------------------------------------------

Completions == Count(console, Completed)

\* C10 (cooperative shutdown): once main is through shutdown.Start(), the
\* display task eventually has printed the completion line, called Done and
\* exited, and main has returned; the completion line is never printed twice
\* and is printed only with the flag set; Done is called once; and
\* shutdown.Wait() has returned only with the display task gone.
CooperativeShutdown ==
    /\ [](Completions <= 1)
    /\ [](Completions = 1 => shutdown.start)
    /\ [](dispPc = "exited" => Completions = 1 /\ shutdown.wg = 0)
    /\ [](pc \in {"waited", "exited"} => dispPc = "exited")
    /\ (pc = "wait") ~> (pc = "exited" /\ dispPc = "exited" /\ Completions = 1)

\* The process has terminated after a run in which the display task rendered
\* a line while the walk was going on and printed the completion line once.
ShutdownWitness ==
    /\ pc = "exited"
    /\ dispPc = "exited"
    /\ Completions = 1
    /\ displayInfo.line # <<>>
    /\ displayInfo.line.progress < stats.progress

MainInStats == pc \in {"counting", "counted", "returning", "extra"}

\* The display task is between a stats.lock.Lock() and its Unlock().
DisplayInStats ==
    dispPc \in {"sampling", "cloning", "completeLocked", "completeWriting", "completeWritten"}

\* C21 (lock discipline): the walk and the driver are between Lock and
\* Unlock of stats.lock only while they hold it, and so is the display task;
\* the shared progress state changes only in a step of the holder main and
\* never while the display task holds the lock; a finished snapshot equals
\* the progress state of the instant it was finished at, although its fields
\* were read one after the other; and a step of a hashing task leaves the
\* progress state and the lock alone.
LockDiscipline ==
    /\ [](MainInStats => statsLock = "main")
    /\ [](DisplayInStats => statsLock = "display")
    /\ [][stats' # stats => MainInStats /\ statsLock = "main"]_vars
    /\ [][statsLock = "display" => stats' = stats]_vars
    /\ [][statsCache' # statsCache => DisplayInStats /\ statsLock = "display"]_vars
    /\ [][dispPc = "cloning" /\ dispPc' = "render" =>
            statsCache' = Clone(stats) /\ stats' = stats]_vars
    /\ [][hashing' # hashing /\ pc = "hashwait" /\ pc' = "hashwait" =>
            stats' = stats /\ statsLock' = statsLock /\ statsCache' = statsCache]_vars

\* The display task holds stats.lock in the middle of a clone, after the walk
\* has counted an entry, while one hashing task of the next entry still runs.
LockWitness ==
    /\ dispPc = "cloning"
    /\ statsLock = "display"
    /\ pc = "hashwait"
    /\ hashing.wg = 1
    /\ stats.matched = 1
    /\ statsCache.progress = stats.progress
    /\ statsCache.matched = 0

\* C22 (the display task only observes): a step of statsGalore leaves the
\* progress, the current path, every counter, the position of the walk and
\* of its hashing tasks, the trees and the shutdown flag as they are; the
\* display line changes only in a step of statsGalore, and to the snapshot
\* it has taken.
DisplayObserves ==
    /\ [][dispPc # "unborn" /\ dispPc' # dispPc =>
            /\ stats' = stats
            /\ pc' = pc
            /\ walkLeft' = walkLeft
            /\ hashing' = hashing
            /\ <<fs, cfg, stack, trail>>' = <<fs, cfg, stack, trail>>
            /\ shutdown'.start = shutdown.start
            /\ displayInfo'.show = displayInfo.show]_vars
    /\ [][displayInfo'.line # displayInfo.line =>
            dispPc = "rendering" /\ dispPc' = "check" /\ displayInfo'.line = statsCache]_vars

\* The display task has shown a line with one entry counted and is back at
\* the head of its loop, and the walk is where it was, one entry to go.
ObservesWitness ==
    /\ dispPc = "check"
    /\ displayInfo.line # <<>>
    /\ displayInfo.line.matched = 1
    /\ stats.matched = 1
    /\ pc = "work"
    /\ walkLeft = 1

\* ------------------------------------------------------------------------
\* The locks: their order, and the tasks that wait for them
\* ------------------------------------------------------------------------

\* sync.Mutex in starvation mode hands the lock to the task that has waited
\* longest, and a sync.RWMutex with a writer waiting admits no new readers:
\* a task that can take its lock again and again does get it.
SpecLocks ==
    /\ ShutdownInit
    /\ [][ShutdownNext]_vars
    /\ SF_vars(MainNext)
    /\ WF_vars(HashNext)
    /\ SF_vars(DisplayNext)

\* The task holds the sync.RWMutex, as writer or as reader.
HoldsLock(lock, who) == lock.writer = who \/ who \in lock.readers

\* The process is gone and its tasks with it.
ProcessGone == pc \in {"exited", "panicked"}

\* C30 (no deadlock): a task takes stats.lock only while it holds no other
\* lock, displayInfo.lock only while it does not hold shutdown.lock (it may
\* hold stats.lock), and shutdown.lock only while it holds no other lock; in
\* every state of a process that is not gone some task can take a step; and
\* every task that has come to a Lock or RLock gets the lock, unless the
\* process panics first.
LockOrder ==
    /\ [][\A who \in {"main", "display"} :
            /\ (statsLock' = who /\ statsLock # who) =>
                  ~HoldsLock(displayInfo.lock, who) /\ ~HoldsLock(shutdown.lock, who)
            /\ (HoldsLock(displayInfo'.lock, who) /\ ~HoldsLock(displayInfo.lock, who)) =>
                  ~HoldsLock(shutdown.lock, who)
            /\ (HoldsLock(shutdown'.lock, who) /\ ~HoldsLock(shutdown.lock, who)) =>
                  statsLock # who /\ ~HoldsLock(displayInfo.lock, who)]_vars
    /\ [](~ProcessGone => ENABLED ShutdownNext)
    /\ (pc = "judged") ~> (pc = "counting")
    /\ (pc = "work" /\ walkLeft = 0) ~> (pc = "returning")
    /\ (pc = "returned") ~> (pc = "extra")
    /\ (pc = "worked") ~> (pc = "hiding")
    /\ (pc = "hidden") ~> (pc = "starting")
    /\ (dispPc = "check") ~> (dispPc = "checking" \/ pc = "panicked")
    /\ (dispPc = "complete") ~> (dispPc = "completeLocked" \/ pc = "panicked")
    /\ (dispPc = "completeLocked") ~> (dispPc = "completeWriting" \/ pc = "panicked")
    /\ (dispPc = "sample") ~> (dispPc = "sampling" \/ pc = "panicked")
    /\ (dispPc = "render") ~> (dispPc = "rendering" \/ pc = "panicked")

\* The display task holds stats.lock and, inside it, displayInfo.lock as a
\* reader, while main is in shutdown.Wait().
LockOrderWitness ==
    /\ statsLock = "display"
    /\ HoldsLock(displayInfo.lock, "display")
    /\ dispPc = "completeWriting"
    /\ pc = "wait"

\* ------------------------------------------------------------------------
\* useDB: building the hash database and checking trees against it
\* ------------------------------------------------------------------------

\* The tree a build walks holds at most this many entries.
MaxBuildEntries == 3

\* The trees a check walks hold at most this many entries together.
MaxCheckEntries == 2

\* An entry of these trees lies at most this many names below its root.
MaxUseLevels == 3

\* The program is run at most this many times on the same disk.
MaxRuns == 2

\* The names a directory of these trees can hold, sorted; a file name may
\* hold a line feed on every system but Windows.
UseNameOrder == <<"Thumbs.db", "a", "a\nb">>

RECURSIVE UseRelPaths(_)
UseRelPaths(k) ==
    IF k = 0 THEN {<<>>}
    ELSE UseRelPaths(k - 1) \cup
         {Append(p, UseNameOrder[n]) :
            p \in {q \in UseRelPaths(k - 1) : Len(q) = k - 1}, n \in 1..Len(UseNameOrder)}

UseNodes(roots) ==
    LET paths == {r \o rel : r \in roots, rel \in UseRelPaths(MaxUseLevels) \ {<<>>}}
    IN  {DirNode(p) : p \in paths} \cup {FileNode(p, c) : p \in paths, c \in Contents}

\* A path as the string the program holds: the names joined by the separator.
RECURSIVE PathString(_)
PathString(path) ==
    IF Len(path) = 1 THEN path[1]
    ELSE PathString(Parent(path)) \o "/" \o Base(path)

\* strings.HasPrefix(str, prefix)
HasPrefix(str, prefix) ==
    Len(prefix) <= Len(str) /\ SubSeq(str, 1, Len(prefix)) = prefix

\* filepath.Clean, as far as Join needs it: a run of separators becomes one.
RECURSIVE Clean(_)
Clean(str) ==
    IF Len(str) < 2 THEN str
    ELSE IF SubSeq(str, 1, 2) = "//" THEN Clean(SubSeq(str, 2, Len(str)))
    ELSE SubSeq(str, 1, 1) \o Clean(SubSeq(str, 2, Len(str)))

\* filepath.Join(dir, rest) on strings
JoinStrings(dir, rest) == Clean(dir \o "/" \o rest)

\* suffix: fullName without the first configured entry that is a prefix of it.
CopySuffix(config, fullName) ==
    LET hits == {k \in 1..Len(config.entries) :
                    HasPrefix(fullName, PathString(config.entries[k]))}
    IN  IF hits = {} THEN ""
        ELSE LET k == CHOOSE h \in hits : \A g \in hits : h <= g
             IN  SubSeq(fullName, Len(PathString(config.entries[k])) + 1, Len(fullName))

\* The directories above a path: what is left of each of its separators.
DirsAbove(str) ==
    {SubSeq(str, 1, k - 1) : k \in {j \in 2..Len(str) : SubSeq(str, j, j) = "/"}}

\* os.MkdirAll(filepath.Dir(dst), 0666): it fails when a file is in the way.
MkdirAll(tree, dst) ==
    IF \E n \in tree : n.path \in DirsAbove(dst) /\ ~n.isDir
    THEN [err |-> "other", fs |-> tree]
    ELSE [err |-> "",
          fs |-> tree \cup
                 {DirNode(d) : d \in {e \in DirsAbove(dst) : ~Exists(tree, e)}}]

\* A copy that fails whatever the destination holds.
copyFileFails(tree, content, dst) == [err |-> "exist", fs |-> tree]

\* copyFile(src, dst): the destination is opened with O_CREATE|O_EXCL, so a
\* destination that exists is an error.
copyFile(tree, content, dst) ==
    IF Exists(tree, dst) THEN [err |-> "exist", fs |-> tree]
    ELSE [err |-> "", fs |-> tree \cup {FileNode(dst, content)}]

\* The entry of useDB: the listing is read and the budget is split.
useDBCall(progressValue, dirName, depth) ==
    LET fileInfos == ReadDir(UseNameOrder, fs, dirName)
        split == splitProgressValue(progressValue, Len(fileInfos))
    IN  [dirName |-> dirName,
         fileInfos |-> fileInfos,
         i |-> 0,
         progressValue |-> progressValue,
         progressChunk |-> split.chunk,
         progressExtra |-> split.extra,
         depth |-> depth,
         entryProgress |-> stats.progress]

\* main: progressChunk, progressExtra := splitProgressValue(100.0, len(cfg.entries)-1)
CheckSplit == splitProgressValue(ProgressTotal, Len(cfg.entries) - 1)

\* main's loop variable i: the configured entry the top-level call walks.
TargetIndex == CHOOSE k \in 1..Len(cfg.entries) : cfg.entries[k] = stack[1].dirName

UseAtEntry ==
    /\ pc = "usedb"
    /\ Top.i < Len(Top.fileInfos)

Used(how, hash, inDb, dst, dm, dmiss, dc) ==
    [how |-> how, fullName |-> DupFullName, hash |-> hash, inDb |-> inDb, dst |-> dst,
     deltaMatched |-> dm, deltaMissing |-> dmiss, deltaCopied |-> dc]

\* main with -build-db: initDB(cfg.entries[1]); useDB(cfg, 100.0, cfg.entries[0], cfg.depth)
StartBuild ==
    /\ pc = "start"
    /\ cfg.buildDB
    /\ LET made == Mkdir(fs, Join(cfg.entries[2], dbDirectory))
       IN  /\ fs' = made.fs
           /\ runs' = [runs EXCEPT !.before = fs]
           /\ IF made.err = "other"
              THEN pc' = "panic" /\ UNCHANGED stack
              ELSE /\ pc' = "usedb"
                   /\ stack' = <<useDBCall(ProgressTotal, cfg.entries[1], cfg.depth)>>
    /\ UNCHANGED <<cfg, stats, console, trail, lastEntry, lastCall, cmpVars, dupVars,
                   dbVars, shutVars, copies, lastUse, cliVars>>

\* main with -check-db: verifyDB(cfg.entries[0]), then useDB for the first target.
StartCheck ==
    /\ pc = "start"
    /\ ~cfg.buildDB
    /\ cfg.checkDB
    /\ IF IsDir(fs, Join(cfg.entries[1], dbDirectory))
       THEN /\ pc' = "usedb"
            /\ stack' = <<useDBCall(CheckSplit.chunk, cfg.entries[2], cfg.depth)>>
       ELSE pc' = "panic" /\ UNCHANGED stack
    /\ UNCHANGED <<fs, cfg, stats, console, trail, lastEntry, lastCall, cmpVars, dupVars,
                   dbVars, shutVars, useVars, cliVars>>

\* An entry matching the ignore rule.
UseIgnoreEntry ==
    /\ UseAtEntry
    /\ DupIgnored
    /\ stats' = [stats EXCEPT !.progress = @ + Top.progressChunk, !.ignored = @ + 1]
    /\ stack' = ReplaceTop(NextEntry(Top))
    /\ lastUse' = Used("ignored", <<>>, FALSE, "", 0, 0, 0)
    /\ UNCHANGED <<fs, cfg, pc, console, trail, lastEntry, lastCall, cmpVars, dupVars,
                   dbVars, shutVars, copies, runs, cliVars>>

\* A directory within the depth limit: the recursive call.
UseDescendEntry ==
    /\ UseAtEntry
    /\ ~DupIgnored
    /\ DupEntry.isDir
    /\ Top.depth # 0
    /\ stats' = [stats EXCEPT !.currentPath = DupFullName]
    /\ trail' = Append(trail, DupFullName)
    /\ stack' = Append(stack, useDBCall(Top.progressChunk, DupFullName, Top.depth - 1))
    /\ lastUse' = Used("descended", <<>>, FALSE, "", 0, 0, 0)
    /\ UNCHANGED <<fs, cfg, pc, console, lastEntry, lastCall, cmpVars, dupVars,
                   dbVars, shutVars, copies, runs, cliVars>>

\* A directory at the depth limit: only its share of the progress is added.
UseSkipDir ==
    /\ UseAtEntry
    /\ ~DupIgnored
    /\ DupEntry.isDir
    /\ Top.depth = 0
    /\ stats' = [stats EXCEPT !.currentPath = DupFullName,
                              !.progress = @ + Top.progressChunk]
    /\ trail' = Append(trail, DupFullName)
    /\ stack' = ReplaceTop(NextEntry(Top))
    /\ lastUse' = Used("skipped", <<>>, FALSE, "", 0, 0, 0)
    /\ UNCHANGED <<fs, cfg, pc, console, lastEntry, lastCall, cmpVars, dupVars,
                   dbVars, shutVars, copies, runs, cliVars>>

\* A file in build mode: its origin path is recorded under its digest.
UseBuildFile ==
    /\ UseAtEntry
    /\ ~DupIgnored
    /\ ~DupEntry.isDir
    /\ cfg.buildDB
    /\ LET hash == hashFile(fs, DupFullName)
           r == ensureDBEntry(fs, cfg.entries[2], hash, PathString(DupFullName))
           deltaCopied == IF r.modified THEN 1 ELSE 0
           deltaMatched == IF r.modified THEN 0 ELSE 1
       IN  /\ fs' = r.fs
           /\ trail' = Append(trail, DupFullName)
           /\ ensured' = IF r.panic THEN ensured
                         ELSE ensured \cup {<<cfg.entries[2], hash, PathString(DupFullName)>>}
           /\ IF r.panic
              THEN /\ pc' = "panic"
                   /\ stats' = [stats EXCEPT !.currentPath = DupFullName]
                   /\ lastUse' = Used("panic", hash, FALSE, "", 0, 0, 0)
                   /\ UNCHANGED stack
              ELSE /\ pc' = pc
                   /\ stats' = [stats EXCEPT !.currentPath = DupFullName,
                                             !.progress = @ + Top.progressChunk,
                                             !.matched = @ + deltaMatched,
                                             !.copied = @ + deltaCopied]
                   /\ lastUse' = Used("built", hash, ~r.modified, "", deltaMatched, 0,
                                      deltaCopied)
                   /\ stack' = ReplaceTop(NextEntry(Top))
    /\ UNCHANGED <<cfg, console, lastEntry, lastCall, cmpVars, dupVars,
                   lastDb, dbSteps, shutVars, copies, runs, cliVars>>

\* A file in check mode: in the database, or copied, or reported missing.
UseCheckFile ==
    /\ UseAtEntry
    /\ ~DupIgnored
    /\ ~DupEntry.isDir
    /\ ~cfg.buildDB
    /\ cfg.checkDB
    /\ LET hash == hashFile(fs, DupFullName)
           inDb == hasDBEntry(fs, cfg.entries[1], hash)
           fullName == PathString(DupFullName)
           suffix == CopySuffix(cfg, fullName)
           dst == JoinStrings(cfg.copy, suffix)
           made == MkdirAll(copies, dst)
           copied == copyFile(made.fs, ContentOf(fs, DupFullName), dst)
           Counted(how, dm, dmiss, dc) ==
               /\ pc' = pc
               /\ stats' = [stats EXCEPT !.currentPath = DupFullName,
                                         !.progress = @ + Top.progressChunk,
                                         !.matched = @ + dm,
                                         !.missing = @ + dmiss,
                                         !.copied = @ + dc]
               /\ lastUse' = Used(how, hash, inDb, IF dc = 1 THEN dst ELSE "", dm, dmiss, dc)
               /\ stack' = ReplaceTop(NextEntry(Top))
           Panics(how) ==
               /\ pc' = "panic"
               /\ stats' = [stats EXCEPT !.currentPath = DupFullName]
               /\ lastUse' = Used(how, hash, inDb, dst, 0, 0, 0)
               /\ UNCHANGED <<stack, console>>
       IN  /\ trail' = Append(trail, DupFullName)
           /\ IF inDb
              THEN Counted("matched", 1, 0, 0) /\ UNCHANGED <<copies, console>>
              ELSE IF Len(cfg.copy) > 0
              THEN IF suffix = "" THEN Panics("no prefix") /\ UNCHANGED copies
                   ELSE IF made.err # "" THEN Panics("mkdir failed") /\ UNCHANGED copies
                   ELSE IF copied.err # "" THEN Panics("copy failed") /\ copies' = made.fs
                   ELSE /\ Counted("copied", 0, 0, 1)
                        /\ copies' = copied.fs
                        /\ console' = Append(console, Report("COPIED", DupFullName))
              ELSE /\ Counted("missing", 0, 1, 0)
                   /\ console' = Append(console, Report("MISSING", DupFullName))
                   /\ UNCHANGED copies
    /\ UNCHANGED <<fs, cfg, lastEntry, lastCall, cmpVars, dupVars,
                   dbVars, shutVars, runs, cliVars>>

\* A recursive call is through its listing and returns; the caller continues
\* with its next entry without adding progress of its own.
UseReturnFromDir ==
    /\ pc = "usedb"
    /\ Len(stack) > 1
    /\ Top.i = Len(Top.fileInfos)
    /\ stats' = [stats EXCEPT !.currentPath = NoPath, !.progress = @ + Top.progressExtra]
    /\ lastCall' = [returned |-> TRUE, dirNames |-> <<Top.dirName>>,
                    progressValue |-> Top.progressValue,
                    consumed |-> stats.progress + Top.progressExtra - Top.entryProgress]
    /\ stack' = Append(SubSeq(stack, 1, Len(stack) - 2), NextEntry(stack[Len(stack) - 1]))
    /\ UNCHANGED <<fs, cfg, pc, console, trail, lastEntry, cmpVars, dupVars,
                   dbVars, shutVars, useVars, cliVars>>

\* Check mode: the call for one target returns and main starts the call for
\* the next configured target.
UseNextTarget ==
    /\ pc = "usedb"
    /\ Len(stack) = 1
    /\ Top.i = Len(Top.fileInfos)
    /\ ~cfg.buildDB
    /\ TargetIndex < Len(cfg.entries)
    /\ stats' = [stats EXCEPT !.currentPath = NoPath, !.progress = @ + Top.progressExtra]
    /\ lastCall' = [returned |-> TRUE, dirNames |-> <<Top.dirName>>,
                    progressValue |-> Top.progressValue,
                    consumed |-> stats.progress + Top.progressExtra - Top.entryProgress]
    /\ stack' = <<[useDBCall(CheckSplit.chunk, cfg.entries[TargetIndex + 1], cfg.depth)
                     EXCEPT !.entryProgress = stats.progress + Top.progressExtra]>>
    /\ UNCHANGED <<fs, cfg, pc, console, trail, lastEntry, cmpVars, dupVars,
                   dbVars, shutVars, useVars, cliVars>>

\* The last top-level call returns to main; check mode adds what the split
\* over the targets left over.
FinishUseDB ==
    /\ pc = "usedb"
    /\ Len(stack) = 1
    /\ Top.i = Len(Top.fileInfos)
    /\ cfg.buildDB \/ TargetIndex = Len(cfg.entries)
    /\ stats' = [stats EXCEPT !.currentPath = NoPath,
                              !.progress = @ + Top.progressExtra +
                                  IF cfg.buildDB THEN 0 ELSE CheckSplit.extra]
    /\ lastCall' = [returned |-> TRUE, dirNames |-> <<Top.dirName>>,
                    progressValue |-> Top.progressValue,
                    consumed |-> stats.progress + Top.progressExtra - Top.entryProgress]
    /\ stack' = <<>>
    /\ pc' = "done"
    /\ UNCHANGED <<fs, cfg, console, trail, lastEntry, cmpVars, dupVars,
                   dbVars, shutVars, useVars, cliVars>>

\* The program is started again with the same command line on the disk the
\* finished build has left.
RunAgain ==
    /\ pc = "done"
    /\ cfg.buildDB
    /\ runs.count < MaxRuns
    /\ runs' = [runs EXCEPT !.count = @ + 1]
    /\ pc' = "start"
    /\ stats' = ZeroStats
    /\ console' = <<>>
    /\ trail' = <<>>
    /\ lastCall' = NoCall
    /\ lastUse' = NoUse
    /\ UNCHANGED <<fs, cfg, stack, lastEntry, cmpVars, dupVars, dbVars, shutVars,
                   copies, cliVars>>

\* -build-db with a source and the directory that receives the database.
BuildConfigs ==
    {[getConfig(SubSeq(Roots, 1, 2), d, FALSE, sys) EXCEPT !.buildDB = TRUE] :
        d \in -1..MaxDepthOpt, sys \in BOOLEAN}

\* The positional arguments of a check: the database root and one or two
\* targets; in the last one a target is a string prefix of the other.
CheckEntries ==
    {SubSeq(Roots, 1, 2), Roots, <<Roots[1], <<"T">>, Roots[2]>>}

\* -check-db, with and without -copy.
CheckConfigs ==
    {[getConfig(e, d, FALSE, FALSE) EXCEPT !.checkDB = TRUE, !.copy = c] :
        e \in CheckEntries, d \in -1..MaxDepthOpt, c \in {"", "C"}}

\* A database as a build leaves it below a root, for a set of file contents.
Database(root, contents) ==
    {DirNode(Join(root, dbDirectory))} \cup
    {DirNode(hashFileDir(root, Blake2b(c))) : c \in contents} \cup
    {FileNode(hashFilePath(root, Blake2b(c)), "S/a\n") : c \in contents}

\* What a check can find below its first argument: no database, an empty
\* one, or one that knows a content.
Databases == {{}} \cup {Database(Roots[1], cs) : cs \in {{}, {"X"}}}

UseInit ==
    /\ \/ /\ cfg \in BuildConfigs
          /\ fs \in Forests(UseNodes({Roots[1]}), MaxBuildEntries)
       \/ /\ cfg \in CheckConfigs
          /\ \E db \in Databases :
             \E tree \in Forests(UseNodes({cfg.entries[k] : k \in 2..Len(cfg.entries)}),
                                 MaxCheckEntries) :
                fs = tree \cup db
    /\ pc = "start"
    /\ stack = <<>>
    /\ hashing = NoHashing
    /\ stats = ZeroStats
    /\ console = <<>>
    /\ trail = <<>>
    /\ lastEntry = NoEntry
    /\ lastCall = NoCall
    /\ seenHashes = {}
    /\ removed = {}
    /\ ensured = {}
    /\ lastDb = NoDbCall
    /\ dbSteps = 0
    /\ NoDisplayTask
    /\ FirstRun

UseNext ==
    \/ StartBuild
    \/ StartCheck
    \/ UseIgnoreEntry
    \/ UseDescendEntry
    \/ UseSkipDir
    \/ UseBuildFile
    \/ UseCheckFile
    \/ UseReturnFromDir
    \/ UseNextTarget
    \/ FinishUseDB
    \/ RunAgain

SpecUseDB == UseInit /\ [][UseNext]_vars

\* ------------------------------------------------------------------------
\* main: the walk the flags select
\* ------------------------------------------------------------------------

\* A dispatch that tests -delete-dupes before -find-gaps.
ModeDedupeFirst(config) ==
    IF config.deleteDupes THEN "dedupe"
    ELSE IF config.gapOpts # NoGapOpts THEN "gaps"
    ELSE IF config.buildDB THEN "build"
    ELSE IF config.checkDB THEN "check"
    ELSE "compare"

\* if cfg.gapOpts != nil ... else if cfg.deleteDupes ... else if cfg.buildDB
\* ... else if cfg.checkDB ... else
Mode(config) ==
    IF config.gapOpts # NoGapOpts THEN "gaps"
    ELSE IF config.deleteDupes THEN "dedupe"
    ELSE IF config.buildDB THEN "build"
    ELSE IF config.checkDB THEN "check"
    ELSE "compare"

WalkInit == GapsInit \/ DedupeInit \/ UseInit \/ CompareInit

WalkNext ==
    \/ Mode(cfg) = "gaps" /\ GapsNext
    \/ Mode(cfg) = "dedupe" /\ DedupeNext
    \/ Mode(cfg) \in {"build", "check"} /\ UseNext
    \/ Mode(cfg) = "compare" /\ CompareNext

SpecWalk == WalkInit /\ [][WalkNext]_vars

\* ------------------------------------------------------------------------
\* Properties of the walks taken together (SpecWalk)
\* ------------------------------------------------------------------------

\* A discrepancy has been reported in this run.
Reported == console # <<>>

\* The run was aborted by a copy that could not be made: the destination
\* existed already, or a file stood where a directory was needed.
CopyFailed ==
    /\ pc = "panic"
    /\ \/ lastUse.how = "copy failed" /\ Exists(copies, lastUse.dst)
       \/ /\ lastUse.how = "mkdir failed"
          /\ \E n \in copies : n.path \in DirsAbove(lastUse.dst) /\ ~n.isDir

WalkedRoots ==
    IF Mode(cfg) = "check" THEN {cfg.entries[k] : k \in 2..Len(cfg.entries)}
    ELSE IF Mode(cfg) = "gaps" THEN {}
    ELSE {cfg.entries[1]}

WalkedNodes == {n \in fs \cup removed : SubSeq(n.path, 1, 1) \in WalkedRoots}

\* The number of directory levels between an entry and the top-level
\* directory it lies under: 0 for an immediate entry.
LevelsBelow(path) == Len(path) - 2

\* Neither an ignore rule nor, in the comparison, a directory that no target
\* has keeps the walk from the entry; the depth limit is left aside.
Accessible(path) ==
    \A len \in 2..(Len(path) - 1) :
        LET q == SubSeq(path, 1, len)
        IN  /\ ~IgnoreRule(cfg, q, Base(q), TRUE)
            /\ Mode(cfg) = "compare" => \E t \in TargetRoots : IsDir(fs, t \o Rel(q))

\* C13 (depth limit): in compareDir, useDB and deleteDupes the call at nesting
\* level j runs with the limit less j; with a limit d >= 0 no call is nested
\* deeper than d levels and no processed entry lies more than d levels below
\* the top-level directory, and after the run the processed entries are
\* exactly the accessible ones at most d levels down (for d = 0 the immediate
\* entries); with the limit -1 they are all the accessible entries.
DepthLimit ==
    Mode(cfg) # "gaps" =>
        /\ \A j \in DOMAIN stack : stack[j].depth = cfg.depth - (j - 1)
        /\ cfg.depth >= 0 =>
              /\ Len(stack) <= cfg.depth + 1
              /\ \A k \in DOMAIN trail : LevelsBelow(trail[k]) <= cfg.depth
        /\ pc = "done" =>
              \A n \in WalkedNodes :
                  Count(trail, n.path) =
                      IF /\ ~Ignored(n)
                         /\ Accessible(n.path)
                         /\ cfg.depth = -1 \/ LevelsBelow(n.path) <= cfg.depth
                      THEN 1 ELSE 0

\* A finished run with the limit 1 that processed a directory one level down
\* and left the entry inside that directory alone.
DepthWitness ==
    /\ pc = "done"
    /\ cfg.depth = 1
    /\ \E n \in WalkedNodes :
          /\ LevelsBelow(n.path) = 2
          /\ Count(trail, n.path) = 0
          /\ Count(trail, Parent(n.path)) = 1

\* ------------------------------------------------------------------------
\* More properties of the tree comparison (SpecCompare)
\* ------------------------------------------------------------------------

\* The walk is at a source directory that is not ignored and that none of
\* the target directories of the call holds under any kind.
AtMissingDir ==
    /\ AtEntry
    /\ ~CurIgnored
    /\ CurEntry.isDir
    /\ \A j \in 2..Len(Top.dirNames) : ~Exists(fs, Join(Top.dirNames[j], CurEntry.name))

\* path lies below dir.
Below(path, dir) == Len(path) > Len(dir) /\ SubSeq(path, 1, Len(dir)) = dir

\* C14 (directory missing from every target): the step that processes such a
\* directory writes one MISSING line for every target of the call, in their
\* order, adds the number of targets to missing and nothing to matched and
\* mismatched, adds the directory's share to the progress and moves to the
\* next entry of the same call; nothing below the directory is ever processed.
MissingDirectory ==
    /\ [][AtMissingDir =>
            /\ console' = console \o
                  [j \in 1..(Len(Top.dirNames) - 1) |->
                      Report("MISSING", Join(Top.dirNames[j + 1], CurEntry.name))]
            /\ stats' = [stats EXCEPT !.currentPath = CurFullName,
                                      !.progress = @ + Top.progressChunk,
                                      !.missing = @ + Len(Top.dirNames) - 1]
            /\ trail' = Append(trail, CurFullName)
            /\ stack' = ReplaceTop(NextEntry(Top))
            /\ ~hashing'.active]_vars
    /\ []((lastEntry.how = "plain" /\ lastEntry.isDir /\ Len(lastEntry.allNames) = 1) =>
            \A k \in DOMAIN trail : ~Below(trail[k], lastEntry.fullName))

\* A source directory with an entry inside it was found missing from both
\* targets of the call.
MissingDirWitness ==
    /\ lastEntry.how = "plain"
    /\ lastEntry.isDir
    /\ Len(lastEntry.dirNames) = 3
    /\ lastEntry.deltaMissing = 2
    /\ Count(console, Report("MISSING", cfg.entries[2] \o Rel(lastEntry.fullName))) = 1
    /\ Count(console, Report("MISSING", cfg.entries[3] \o Rel(lastEntry.fullName))) = 1
    /\ \E n \in fs : Parent(n.path) = lastEntry.fullName

\* The entry the comparison is at is a system name: a directory with one of
\* the four system directory names directly under a configured root, or a
\* file named Thumbs.db.
AtSystemName ==
    \/ /\ CurEntry.isDir
       /\ CurEntry.name \in {"$RECYCLE.BIN", "$Recycle.Bin", "System Volume Information",
                             "found.000"}
       /\ \E k \in 1..Len(cfg.entries) : Top.dirNames[1] = cfg.entries[k]
    \/ ~CurEntry.isDir /\ CurEntry.name = "Thumbs.db"

\* C17 (ignore rule): without -system-names the step at a system name adds
\* the entry's share to the progress and one to ignored, and nothing else
\* happens: no report, no count, no hashing task, no recursive call, and the
\* entry is not among the processed ones; the step at any other entry leaves
\* ignored alone; with -system-names ignored stays zero.
IgnoreSystemNames ==
    /\ [][AtEntry =>
            IF ~cfg.checkSysNames /\ AtSystemName
            THEN /\ stats' = [stats EXCEPT !.progress = @ + Top.progressChunk,
                                           !.ignored = @ + 1]
                 /\ console' = console
                 /\ trail' = trail
                 /\ hashing' = hashing
                 /\ stack' = ReplaceTop(NextEntry(Top))
            ELSE stats'.ignored = stats.ignored]_vars
    /\ [](cfg.checkSysNames => stats.ignored = 0)

\* A Thumbs.db one level down and a found.000 directory under the source
\* root have both been skipped.
IgnoreWitness ==
    /\ pc = "done"
    /\ stats.ignored = 2
    /\ lastEntry.how = "ignored"
    /\ \E n \in fs : Len(n.path) = 3 /\ ~n.isDir /\ Base(n.path) = "Thumbs.db"
    /\ \E n \in fs : Len(n.path) = 2 /\ n.isDir /\ Base(n.path) = "found.000"

\* ------------------------------------------------------------------------
\* Properties of the database walks (SpecUseDB)
\* ------------------------------------------------------------------------

\* useDB is at a file that is not ignored.
AtUsedFile ==
    /\ UseAtEntry
    /\ ~DupIgnored
    /\ ~DupEntry.isDir

\* The database below the first configured entry has an entry file for the
\* digest of the file useDB is at.
EntryFileExists ==
    \E n \in fs :
        /\ ~n.isDir
        /\ n.path = hashFilePath(cfg.entries[1], Blake2b(ContentOf(fs, DupFullName)))

\* The counters of the Stats, without the progress and the current path.
Counters(st) == <<st.matched, st.mismatched, st.missing, st.ignored, st.copied>>

SecondBuildDone == pc = "done" /\ Mode(cfg) = "build" /\ runs.count = 2

\* C16 as stated: a second build over an unchanged tree adds to matched only
\* and leaves the disk, the database with it, as the first build left it.
RebuildAddsNothing ==
    SecondBuildDone => stats.copied = 0 /\ fs = runs.before

\* The files of the walked tree whose path holds a line feed.
LineFeedFiles == {n \in WalkedNodes : ~n.isDir /\ HasLineFeed(PathString(n.path))}

\* What the build does keep: the step that processes a file adds one to
\* copied when it appended the file's path and a line feed to the entry file
\* of the file's digest, and one to matched when it wrote nothing; for a path
\* without a line feed it writes nothing exactly when the path is a line of
\* the entry file already; and a second build over an unchanged tree none of
\* whose file paths holds a line feed adds to matched only and writes nothing.
BuildCounters ==
    /\ [][(AtUsedFile /\ Mode(cfg) = "build" /\ pc' # "panic") =>
            LET file == hashFilePath(cfg.entries[2], Blake2b(ContentOf(fs, DupFullName)))
                entry == PathString(DupFullName)
                before == ContentOf(fs, file)
                after == ContentOf(fs', file)
                lines == SplitLines(before)
                listed == \E k \in 1..Len(lines) : lines[k] = entry
            IN  /\ IF fs' # fs
                   THEN /\ after = before \o entry \o "\n"
                        /\ stats'.copied = stats.copied + 1
                        /\ stats'.matched = stats.matched
                   ELSE /\ stats'.copied = stats.copied
                        /\ stats'.matched = stats.matched + 1
                /\ ~HasLineFeed(entry) => (listed <=> fs' = fs)]_vars
    /\ []((SecondBuildDone /\ LineFeedFiles = {}) =>
            stats.copied = 0 /\ fs = runs.before)

\* A second build has finished over a tree of two files with one-line paths
\* and the same content: both were counted matched and nothing was written.
RebuildWitness ==
    /\ SecondBuildDone
    /\ LineFeedFiles = {}
    /\ stats.matched = 2
    /\ stats.copied = 0
    /\ \E n \in fs : ~n.isDir /\ Len(SplitLines(n.content)) = 3

\* ------------------------------------------------------------------------
\* The destination of a copy
\* ------------------------------------------------------------------------

\* The names of a path below a root, joined by the separator.
RECURSIVE RelString(_, _)
RelString(root, path) ==
    IF Len(path) = Len(root) + 1 THEN Base(path)
    ELSE RelString(root, Parent(path)) \o "/" \o Base(path)

\* The configured top-level directory under which the last file was walked:
\* the entry whose names are the first names of the file's path.
WalkedRoot ==
    LET path == lastUse.fullName
    IN  CHOOSE root \in {cfg.entries[k] : k \in 1..Len(cfg.entries)} :
            Len(root) < Len(path) /\ SubSeq(path, 1, Len(root)) = root

\* A configured entry that is not the walked one comes no later in the list
\* and is a string prefix of the walked one.
Shadowed(root) ==
    \E k \in 1..Len(cfg.entries) :
        /\ cfg.entries[k] # root
        /\ HasPrefix(PathString(root), PathString(cfg.entries[k]))
        /\ \A j \in 1..Len(cfg.entries) : cfg.entries[j] = root => k < j

\* C19 as the specification states it: a file that check mode copied went to
\* the copy directory joined with its path relative to the configured
\* directory under which it was walked, whatever the configured paths are.
CopyDestination ==
    lastUse.how = "copied" =>
        lastUse.dst = JoinStrings(cfg.copy, RelString(WalkedRoot, lastUse.fullName))

\* C19 (copy destination): a file that check mode copied went to the copy
\* directory joined with its path relative to the walked directory exactly
\* when no other configured entry that is a string prefix of the walked
\* directory comes before it; otherwise the destination keeps the rest of
\* the walked directory's name in front of the relative path.
CopyDestinationUnlessShadowed ==
    lastUse.how = "copied" =>
        LET expected == JoinStrings(cfg.copy, RelString(WalkedRoot, lastUse.fullName))
        IN  IF Shadowed(WalkedRoot)
            THEN /\ lastUse.dst # expected
                 /\ \E k \in 1..Len(cfg.entries) :
                       lastUse.dst =
                          JoinStrings(cfg.copy,
                                      SubSeq(PathString(lastUse.fullName),
                                             Len(PathString(cfg.entries[k])) + 1,
                                             Len(PathString(lastUse.fullName))))
            ELSE lastUse.dst = expected

\* Two copies were made: one from a directory no entry shadows, one from a
\* directory whose name starts with the name of an earlier entry.
CopyDestinationWitness ==
    /\ lastUse.how = "copied"
    /\ Shadowed(WalkedRoot)
    /\ lastUse.fullName = <<"T1", "a">>
    /\ lastUse.dst = "C/1/a"
    /\ \E n \in copies : n.path = "C/a" /\ ~n.isDir

\* ------------------------------------------------------------------------
\* The order of the tree comparison
\* ------------------------------------------------------------------------

\* The source tree of an ordered comparison holds at most this many entries.
MaxOrderEntries == 3

SourceTrees ==
    Forests({n \in AllNodes : SubSeq(n.path, 1, 1) = Roots[1]}, MaxOrderEntries)

\* A part of the source tree that holds the directories above its entries.
Parts(src) ==
    {part \in SUBSET src :
        \A n \in part : Len(n.path) = 2 \/ \E m \in part : m.path = Parent(n.path)}

\* A part of the source tree, as a target holds it.
Mirror(root, part) == {Node(root \o Rel(n.path), n.isDir) : n \in part}

\* The source tree, and in every target the same part of it: directories
\* with files to hash inside them, followed by further entries.
OrderInit ==
    /\ cfg \in {config \in Configs : ~config.noData}
    /\ \E src \in SourceTrees :
       \E part \in Parts(src) :
          fs = src \cup UNION {Mirror(cfg.entries[j], part) : j \in 2..Len(cfg.entries)}
    /\ pc = "start"
    /\ stack = <<>>
    /\ hashing = NoHashing
    /\ stats = ZeroStats
    /\ console = <<>>
    /\ trail = <<>>
    /\ lastEntry = NoEntry
    /\ lastCall = NoCall
    /\ seenHashes = {}
    /\ removed = {}
    /\ ensured = {}
    /\ lastDb = NoDbCall
    /\ dbSteps = 0
    /\ NoDisplayTask
    /\ FirstRun

SpecOrder == OrderInit /\ [][CompareNext]_vars

\* The entries of its source listing that call k has begun to process.
Begun(k) == stack[k].i + (IF k < Len(stack) \/ hashing.active THEN 1 ELSE 0)

\* The source listing of call k is through.
Through(frame) == frame.i = Len(frame.allFileInfos[1])

\* C20 (sequential ordering): the entries each running call has processed
\* are the entries of its source listing that are not ignored, in listing
\* order; every call below the newest waits at the directory the call above
\* it walks; the hashing tasks that run belong to the one file the newest
\* call is at; a call moves to its next entry only when it is the newest
\* call again, the call above it (if any) is through its listing, and no
\* hashing task runs; and no entry is begun while a hashing task runs.
SequentialOrdering ==
    /\ [](pc = "walk" =>
            \A k \in 1..Len(stack) :
                LET dir == stack[k].dirNames[1]
                    listing == stack[k].allFileInfos[1]
                    InDir(p) == Len(p) = Len(dir) + 1 /\ Parent(p) = dir
                    NotIgnored(e) == ~IgnoreRule(cfg, Join(dir, e.name), e.name, e.isDir)
                    expected == SelectSeq(SubSeq(listing, 1, Begun(k)), NotIgnored)
                IN  /\ listing = getFileList(fs, dir)
                    /\ SelectSeq(trail, InDir) =
                          [j \in 1..Len(expected) |-> Join(dir, expected[j].name)])
    /\ [](\A k \in 1..(Len(stack) - 1) :
            /\ ~Through(stack[k])
            /\ stack[k].allFileInfos[1][stack[k].i + 1].isDir
            /\ stack[k + 1].dirNames[1] =
                  Join(stack[k].dirNames[1], stack[k].allFileInfos[1][stack[k].i + 1].name))
    /\ [](IF hashing.active
          THEN /\ stack # <<>>
               /\ ~Through(Top)
               /\ ~CurEntry.isDir
               /\ hashing.allNames[1] = CurFullName
               /\ \A j \in 1..Len(hashing.allNames) :
                     Base(hashing.allNames[j]) = CurEntry.name
          ELSE hashing.running = {})
    /\ [][/\ \A k \in 1..Len(stack) :
               (k <= Len(stack') /\ stack'[k].i # stack[k].i) =>
                   /\ Len(stack') = k
                   /\ stack'[k].i = stack[k].i + 1
                   /\ hashing.running = {}
                   /\ ~hashing'.active
                   /\ \/ Len(stack) = k
                      \/ Len(stack) = k + 1 /\ Through(stack[k + 1])
          /\ trail' # trail => ~hashing.active /\ trail' = Append(trail, CurFullName)]_vars

\* The call for the directory a has hashed the file inside it and returned,
\* and the caller has gone on to the entry after a.
OrderWitness ==
    /\ trail = << <<"S", "a">>, <<"S", "a", "a">>, <<"S", "found.000">> >>
    /\ lastCall.returned
    /\ lastCall.dirNames[1] = <<"S", "a">>
    /\ \E n \in fs : n.path = <<"T1", "a", "a">> /\ ~n.isDir
    /\ \E n \in fs : n.path = <<"S", "a", "a">> /\ ~n.isDir
    /\ cfg.depth # 0

\* ------------------------------------------------------------------------
\* The counters of compareDir (SpecCompare)
\* ------------------------------------------------------------------------

\* C26 (counter partition): every processed entry that is not ignored has
\* verdict deltas that are not negative and sum to the number of targets of
\* its call, the step that processes it adds exactly those deltas to
\* stats.matched, stats.mismatched and stats.missing, and none of the three
\* counters is ever negative.
CounterPartition ==
    /\ [](/\ stats.matched >= 0
          /\ stats.mismatched >= 0
          /\ stats.missing >= 0
          /\ lastEntry.how \notin {"none", "ignored"} =>
                /\ lastEntry.deltaMatched >= 0
                /\ lastEntry.deltaMismatched >= 0
                /\ lastEntry.deltaMissing >= 0
                /\ lastEntry.deltaMatched + lastEntry.deltaMismatched
                      + lastEntry.deltaMissing = Len(lastEntry.dirNames) - 1)
    /\ [][IF lastEntry' # lastEntry /\ lastEntry'.how # "ignored"
          THEN /\ stats'.matched = stats.matched + lastEntry'.deltaMatched
               /\ stats'.mismatched = stats.mismatched + lastEntry'.deltaMismatched
               /\ stats'.missing = stats.missing + lastEntry'.deltaMissing
          ELSE /\ stats'.matched = stats.matched
               /\ stats'.mismatched = stats.mismatched
               /\ stats'.missing = stats.missing]_vars

\* A file that both targets hold, one of them with other bytes: the WRONG
\* HASH verdict took one from the matches and the deltas still sum to two.
PartitionWitness ==
    /\ lastEntry.how = "hashed"
    /\ Len(lastEntry.dirNames) = 3
    /\ lastEntry.deltaMatched = 1
    /\ lastEntry.deltaMismatched = 1
    /\ lastEntry.deltaMissing = 0
    /\ stats.matched = 1

\* ------------------------------------------------------------------------
\* compareDir on targets that hold other things than the source
\* ------------------------------------------------------------------------

\* The source tree, and each target, holds at most this many entries.
MaxNarrowEntries == 2

\* What a target can hold at the paths of the source tree: nothing, the same
\* kind of entry, or a file for a directory and a directory for a file.
TargetVersions(root, src) ==
    Forests({n \in AllNodes :
                /\ SubSeq(n.path, 1, 1) = root
                /\ \E m \in src : Rel(m.path) = Rel(n.path)},
            MaxNarrowEntries)

\* A source and two targets, each target with a version of its own.
NarrowInit ==
    /\ cfg \in {config \in Configs : Len(config.entries) = 3 /\ config.depth = -1}
    /\ \E src \in Forests({n \in AllNodes : SubSeq(n.path, 1, 1) = Roots[1]},
                           MaxNarrowEntries) :
       \E t1 \in TargetVersions(Roots[2], src), t2 \in TargetVersions(Roots[3], src) :
          fs = src \cup t1 \cup t2
    /\ pc = "start"
    /\ stack = <<>>
    /\ hashing = NoHashing
    /\ stats = ZeroStats
    /\ console = <<>>
    /\ trail = <<>>
    /\ lastEntry = NoEntry
    /\ lastCall = NoCall
    /\ seenHashes = {}
    /\ removed = {}
    /\ ensured = {}
    /\ lastDb = NoDbCall
    /\ dbSteps = 0
    /\ NoDisplayTask
    /\ FirstRun

SpecNarrow == NarrowInit /\ [][CompareNext]_vars

\* The reports made so far for a path.
ReportsFor(lines, path) == {k \in 1..Len(lines) : lines[k].path = path}

\* The directories of a call that hold the name as a directory, the source
\* first, in the order of the call.
HoldingDir(dirNames, name) ==
    LET Holds(d) == IsDir(fs, Join(d, name))
        kept == SelectSeq(dirNames, Holds)
    IN  [k \in 1..Len(kept) |-> Join(kept[k], name)]

\* C27 (target narrowing): every recursive call runs on the source directory
\* and exactly those targets of its caller that hold the directory as a
\* directory; the step that processes a source directory reports each target
\* that lacks it or holds a file under its name exactly once and the other
\* targets not at all; no path is ever reported twice, and no report is ever
\* made for a path below a directory that its target does not hold.
TargetNarrowing ==
    /\ [](/\ \A k \in 2..Len(stack) :
                LET caller == stack[k - 1]
                    name == caller.allFileInfos[1][caller.i + 1].name
                IN  /\ stack[k].dirNames = HoldingDir(caller.dirNames, name)
                    /\ Len(stack[k].dirNames) > 1
          /\ \A k \in 1..Len(console) :
                /\ ReportsFor(console, console[k].path) = {k}
                /\ \A len \in 2..(Len(console[k].path) - 1) :
                      IsDir(fs, SubSeq(console[k].path, 1, len)))
    /\ [][(AtEntry /\ ~CurIgnored /\ CurEntry.isDir /\ trail' # trail) =>
            \A j \in 2..Len(Top.dirNames) :
               LET searchName == Join(Top.dirNames[j], CurEntry.name)
                   made == ReportsFor(console', searchName)
               IN  IF IsDir(fs, searchName) THEN made = {}
                   ELSE /\ Cardinality(made) = 1
                        /\ made \cap ReportsFor(console, searchName) = {}
                        /\ \A k \in made :
                              console'[k].kind =
                                 IF Exists(fs, searchName) THEN "EXPECTED DIR"
                                 ELSE "MISSING"]_vars

\* The first target holds the source directory, the second holds a file
\* under its name: the second got its one report, the call for the directory
\* ran on the source and the first target only and reported the file inside
\* as missing there, and the walk is through.
NarrowingWitness ==
    /\ pc = "done"
    /\ \E n \in fs : n.path = <<"S", "a">> /\ n.isDir
    /\ \E n \in fs : n.path = <<"S", "a", "a">> /\ ~n.isDir
    /\ \E n \in fs : n.path = <<"T1", "a">> /\ n.isDir
    /\ \E n \in fs : n.path = <<"T2", "a">> /\ ~n.isDir
    /\ console = <<Report("EXPECTED DIR", <<"T2", "a">>),
                   Report("MISSING", <<"T1", "a", "a">>)>>

\* ------------------------------------------------------------------------
\* A build, then a check against the database it wrote
\* ------------------------------------------------------------------------

\* The source of the build and the target of the check hold at most this
\* many entries together.
MaxRoundEntries == 3

\* -check-db with the root that received the database as the first argument
\* and the build's source, another directory, or both as targets.
RoundChecks ==
    {[getConfig(<<Roots[2]>> \o targets, -1, FALSE, FALSE) EXCEPT !.checkDB = TRUE,
                                                                !.copy = c] :
        targets \in {<<Roots[1]>>, <<Roots[3]>>, <<Roots[1], Roots[3]>>},
        c \in {"", "C"}}

\* The program is started with -check-db on the disk the finished build has
\* left.
CheckAfterBuild ==
    /\ pc = "done"
    /\ cfg.buildDB
    /\ cfg' \in RoundChecks
    /\ runs' = [runs EXCEPT !.count = @ + 1]
    /\ pc' = "start"
    /\ stats' = ZeroStats
    /\ console' = <<>>
    /\ trail' = <<>>
    /\ lastCall' = NoCall
    /\ lastUse' = NoUse
    /\ UNCHANGED <<fs, stack, lastEntry, cmpVars, dupVars, dbVars, shutVars,
                   copies, arguments, parsed>>

\* A build from the first root into the second, without a depth limit or
\* with the limit 0, no database yet; the first and the third root hold files.
RoundInit ==
    /\ cfg \in {config \in BuildConfigs : config.depth <= 0 /\ ~config.checkSysNames}
    /\ fs \in Forests(UseNodes({Roots[1], Roots[3]}), MaxRoundEntries)
    /\ pc = "start"
    /\ stack = <<>>
    /\ hashing = NoHashing
    /\ stats = ZeroStats
    /\ console = <<>>
    /\ trail = <<>>
    /\ lastEntry = NoEntry
    /\ lastCall = NoCall
    /\ seenHashes = {}
    /\ removed = {}
    /\ ensured = {}
    /\ lastDb = NoDbCall
    /\ dbSteps = 0
    /\ NoDisplayTask
    /\ FirstRun

RoundNext ==
    \/ UseNext
    \/ CheckAfterBuild

SpecRoundTrip == RoundInit /\ [][RoundNext]_vars

\* C28 (build/check round trip): once a build has recorded a digest under a
\* root, hasDBEntry is true of that root and digest in every later state, and
\* the step of a check against that root that processes a file with that
\* digest, whatever its path, completes and adds one to matched and to no
\* other counter, reports nothing and copies nothing.
RoundTrip ==
    /\ [](\A e \in ensured : hasDBEntry(fs, e[1], e[2]))
    /\ [][(/\ AtUsedFile
           /\ Mode(cfg) = "check"
           /\ \E e \in ensured :
                 e[1] = cfg.entries[1] /\ e[2] = hashFile(fs, DupFullName)) =>
            /\ pc' # "panic"
            /\ lastUse'.how = "matched"
            /\ Counters(stats') = <<stats.matched + 1, stats.mismatched, stats.missing,
                                   stats.ignored, stats.copied>>
            /\ console' = console
            /\ copies' = copies]_vars

\* The build recorded S/a; the check against the database has met a file of
\* the same bytes under another root and another name and counted it as
\* matched, after it reported a file of other bytes as missing.
RoundTripWitness ==
    /\ cfg.checkDB
    /\ cfg.entries[1] = Roots[2]
    /\ \E e \in ensured : e[3] = "S/a" /\ e[2] = lastUse.hash
    /\ lastUse.how = "matched"
    /\ lastUse.fullName = <<"T2", "a\nb">>
    /\ stats.matched = 1
    /\ stats.missing = 1

\* ------------------------------------------------------------------------
\* main with several mode options on one command line
\* ------------------------------------------------------------------------

\* The trees of a run with several mode options hold at most this many entries.
MaxModeEntries == 1

\* The mode options in the order the specification gives them precedence.
OptionOrder == <<"gaps", "dedupe", "build", "check", "compare">>

OptionSet(config) ==
    <<config.gapOpts # NoGapOpts, config.deleteDupes, config.buildDB, config.checkDB, TRUE>>

\* The first option in that order that is set; tree comparison when none is.
Selected(config) ==
    LET set == OptionSet(config)
    IN  OptionOrder[CHOOSE k \in 1..5 : set[k] /\ \A j \in 1..(k - 1) : ~set[j]]

\* The options after the selected one.
LowerOptions(config) ==
    LET k == CHOOSE j \in 1..5 : OptionOrder[j] = Selected(config)
    IN  {OptionOrder[j] : j \in (k + 1)..4}

\* flag.Parse with more of -delete-dupes, -build-db and -check-db given.
WithOptions(config, options) ==
    [config EXCEPT !.deleteDupes = @ \/ "dedupe" \in options,
                   !.buildDB = @ \/ "build" \in options,
                   !.checkDB = @ \/ "check" \in options]

\* The trees the walk of a configuration starts on.
ModeTrees(config) ==
    LET small(forests) == {f \in forests : Cardinality(f) <= MaxModeEntries}
    IN  CASE Selected(config) = "gaps" -> small(InitFs(config, GapForests))
          [] Selected(config) = "dedupe" -> small(DedupeForests)
          [] Selected(config) = "build" ->
                small(Forests(UseNodes({Roots[1]}), MaxBuildEntries))
          [] Selected(config) = "check" ->
                {tree \cup db :
                    tree \in small(Forests(UseNodes({config.entries[k] :
                                                        k \in 2..Len(config.entries)}),
                                           MaxCheckEntries)),
                    db \in Databases}
          [] OTHER -> small(InitFs(config, AllForests))

\* The configurations of the five walks without a depth limit, with the
\* system names ignored and the contents compared; the expected names of the
\* gap finder begin at 1 and are one digit wide.
ModeBases ==
    {c \in GapConfigs \cup DedupeConfigs \cup BuildConfigs \cup CheckConfigs \cup Configs :
        /\ c.depth = -1
        /\ ~c.noData
        /\ ~c.checkSysNames
        /\ c.gapOpts # NoGapOpts => c.gapOpts.width = 1 /\ c.gapOpts.begin = 1}

\* Every such configuration with any of the options of lower precedence set
\* as well; getConfig accepts them all.
ModeInit ==
    /\ \E base \in ModeBases :
          /\ cfg \in {WithOptions(base, options) : options \in SUBSET LowerOptions(base)}
          /\ fs \in ModeTrees(base)
    /\ pc = "start"
    /\ stack = <<>>
    /\ hashing = NoHashing
    /\ stats = ZeroStats
    /\ console = <<>>
    /\ trail = <<>>
    /\ lastEntry = NoEntry
    /\ lastCall = NoCall
    /\ seenHashes = {}
    /\ removed = {}
    /\ ensured = {}
    /\ lastDb = NoDbCall
    /\ dbSteps = 0
    /\ NoDisplayTask
    /\ FirstRun

SpecMode == ModeInit /\ [][WalkNext]_vars

\* The position main is at while the walk of a mode runs.
WalkPc(mode) ==
    CASE mode = "gaps" -> "gaps"
      [] mode = "dedupe" -> "dedupe"
      [] mode \in {"build", "check"} -> "usedb"
      [] OTHER -> "walk"

\* C25 (exactly one mode per run): with any set of mode options main can
\* start a walk, the walk that runs is the one of the first option set in the
\* order gaps, dedupe, build, check (else tree comparison) and no other walk
\* leaves a trace, and a file is hashed in build mode only once initDB has
\* returned and in check mode only once verifyDB has found the database.
OneModePerRun ==
    /\ pc = "start" => ENABLED WalkNext
    /\ pc \notin {"start", "done", "panic"} => pc = WalkPc(Selected(cfg))
    /\ removed # {} => Selected(cfg) = "dedupe"
    /\ lastEntry # NoEntry => Selected(cfg) = "compare"
    /\ lastUse # NoUse => Selected(cfg) \in {"build", "check"}
    /\ lastUse.how = "built" => Selected(cfg) = "build"
    /\ lastUse.how \in {"matched", "missing", "copied"} => Selected(cfg) = "check"
    /\ (console # <<>> /\ Selected(cfg) # "gaps") => pc # "gaps"
    /\ (trail # <<>> /\ Selected(cfg) = "build") =>
          /\ pc # "start" \/ runs.count > 1
          /\ Exists(fs, Join(cfg.entries[2], dbDirectory))
    /\ (trail # <<>> /\ Selected(cfg) = "check") =>
          /\ pc # "start"
          /\ IsDir(fs, Join(cfg.entries[1], dbDirectory))

\* -find-gaps, -delete-dupes, -build-db and -check-db on one command line:
\* the gap finder has run and reported, nothing was hashed or removed.
OneModeWitness ==
    /\ cfg.gapOpts # NoGapOpts
    /\ cfg.deleteDupes
    /\ cfg.buildDB
    /\ cfg.checkDB
    /\ pc = "done"
    /\ console # <<>>
    /\ trail = <<>>
    /\ removed = {}

\* ------------------------------------------------------------------------
\* stats.progress as the float64 it is
\* ------------------------------------------------------------------------

\* A source listing holds at most this many entries.
MaxParts == 12

\* A float64 is kept as a sign and a magnitude counted in units of
\* 2^-FloatScale; the magnitude is a natural number in three limbs, lowest
\* first. Every float64 the walk of a listing of up to 25 entries computes
\* from 100 is a whole number of these units.
FloatScale == 50

\* A limb holds this many bits.
LimbBits == 20

\* The significant bits of a float64.
MantissaBits == 53

RECURSIVE Pow2(_)
Pow2(s) == IF s = 0 THEN 1 ELSE 2 * Pow2(s - 1)

LimbBase == Pow2(LimbBits)

\* A magnitude below 2^MantissaBits is exact; this is 2^MantissaBits as the
\* third limb holds it.
MantissaLimit == Pow2(MantissaBits - 2 * LimbBits)

BigZero == <<0, 0, 0>>

BigCarry(l1, l2, l3) ==
    LET t2 == l2 + (l1 \div LimbBase)
    IN  <<l1 % LimbBase, t2 % LimbBase, l3 + (t2 \div LimbBase)>>

BigAdd(a, b) == BigCarry(a[1] + b[1], a[2] + b[2], a[3] + b[3])

\* a - b, for a >= b
BigSub(a, b) ==
    LET t1 == a[1] - b[1] + LimbBase
        t2 == a[2] - b[2] - (1 - (t1 \div LimbBase)) + LimbBase
    IN  <<t1 % LimbBase, t2 % LimbBase, a[3] - b[3] - (1 - (t2 \div LimbBase))>>

BigMul(a, n) == BigCarry(a[1] * n, a[2] * n, a[3] * n)

\* a divided by a small d: the quotient and the remainder.
BigDiv(a, d) ==
    LET t2 == (a[3] % d) * LimbBase + a[2]
        t1 == (t2 % d) * LimbBase + a[1]
    IN  [q |-> <<t1 \div d, t2 \div d, a[3] \div d>>, r |-> t1 % d]

BigLess(a, b) ==
    \/ a[3] < b[3]
    \/ a[3] = b[3] /\ a[2] < b[2]
    \/ a[3] = b[3] /\ a[2] = b[2] /\ a[1] < b[1]

\* The bits of a magnitude that do not fit into 53.
RECURSIVE SpareBits(_, _)
SpareBits(a, s) == IF a[3] \div Pow2(s) < MantissaLimit THEN s ELSE SpareBits(a, s + 1)

\* The float64 nearest to the quotient big / n, ties to even: every result
\* of a float64 operation is rounded this way.
RoundQuotient(big, n) ==
    LET whole == BigDiv(big, n)
        s == SpareBits(whole.q, 0)
        kept == BigDiv(whole.q, Pow2(s))
        dropped == kept.r * n + whole.r
        full == Pow2(s) * n
        up == \/ 2 * dropped > full
              \/ 2 * dropped = full /\ kept.q[1] % 2 = 1
    IN  BigMul(IF up THEN BigAdd(kept.q, <<1, 0, 0>>) ELSE kept.q, Pow2(s))

Round(big) == RoundQuotient(big, 1)

Float(neg, mag) == [neg |-> neg /\ mag # BigZero, mag |-> mag]

FloatZero == Float(FALSE, BigZero)

\* 100.0
Hundred == Float(FALSE, <<0, 0, 100 * Pow2(FloatScale - 2 * LimbBits)>>)

\* The exact sum of two float64, not rounded yet.
ExactSum(x, y) ==
    IF x.neg = y.neg THEN Float(x.neg, BigAdd(x.mag, y.mag))
    ELSE IF BigLess(x.mag, y.mag) THEN Float(y.neg, BigSub(y.mag, x.mag))
    ELSE Float(x.neg, BigSub(x.mag, y.mag))

\* x + y
FloatAdd(x, y) == LET sum == ExactSum(x, y) IN Float(sum.neg, Round(sum.mag))

\* x - y
FloatSub(x, y) == FloatAdd(x, Float(~y.neg, y.mag))

\* x <= y
FloatLeq(x, y) ==
    IF x.neg # y.neg THEN x.neg
    ELSE IF x.neg THEN ~BigLess(x.mag, y.mag)
    ELSE ~BigLess(y.mag, x.mag)

\* splitProgressValue on float64. The compiler may fuse chunk*float64(parts)
\* and the subtraction into one operation that rounds once (fused), or round
\* the product first.
splitProgressFloat(value, parts, fused) ==
    LET chunk == IF parts > 0 THEN Float(value.neg, RoundQuotient(value.mag, parts))
                 ELSE FloatZero
        exact == BigMul(chunk.mag, parts)
        product == Float(chunk.neg, IF fused THEN exact ELSE Round(exact))
    IN  [chunk |-> chunk, extra |-> FloatSub(value, product)]

\* compareDir(cfg, 100.0, ...) on a source directory of walkLeft entries.
StartProgress ==
    /\ pc = "start"
    /\ \E fused \in BOOLEAN :
         LET split == splitProgressFloat(Hundred, walkLeft, fused)
         IN  stack' = <<[i |-> 0, count |-> walkLeft, progressValue |-> Hundred,
                         progressChunk |-> split.chunk, progressExtra |-> split.extra]>>
    /\ pc' = "walk"
    /\ UNCHANGED <<fs, cfg, stats, console, trail, lastEntry, lastCall, cmpVars, dupVars,
                   dbVars, shutVars, useVars, cliVars>>

\* An entry of the listing is through: stats.progress += progressChunk
ProgressEntry ==
    /\ pc = "walk"
    /\ Top.i < Top.count
    /\ stats' = [stats EXCEPT !.progress = FloatAdd(@, Top.progressChunk)]
    /\ stack' = ReplaceTop(NextEntry(Top))
    /\ UNCHANGED <<fs, cfg, pc, console, trail, lastEntry, lastCall, cmpVars, dupVars,
                   dbVars, shutVars, useVars, cliVars>>

\* The listing is through: stats.progress += progressExtra
ProgressReturn ==
    /\ pc = "walk"
    /\ Top.i = Top.count
    /\ stats' = [stats EXCEPT !.progress = FloatAdd(@, Top.progressExtra)]
    /\ pc' = "done"
    /\ UNCHANGED <<fs, cfg, stack, console, trail, lastEntry, lastCall, cmpVars, dupVars,
                   dbVars, shutVars, useVars, cliVars>>

ProgressInit ==
    /\ cfg = getConfig(SubSeq(Roots, 1, 2), -1, TRUE, FALSE)
    /\ fs = {}
    /\ pc = "start"
    /\ stack = <<>>
    /\ hashing = NoHashing
    /\ stats = [ZeroStats EXCEPT !.progress = FloatZero]
    /\ console = <<>>
    /\ trail = <<>>
    /\ lastEntry = NoEntry
    /\ lastCall = NoCall
    /\ seenHashes = {}
    /\ removed = {}
    /\ ensured = {}
    /\ lastDb = NoDbCall
    /\ dbSteps = 0
    /\ dispPc = "unborn"
    /\ shutdown = [start |-> FALSE, wg |-> 0, lock |-> Unlocked]
    /\ displayInfo = [show |-> FALSE, line |-> <<>>, lock |-> Unlocked]
    /\ statsLock = "free"
    /\ statsCache = <<>>
    /\ walkLeft \in 0..MaxParts
    /\ FirstRun

ProgressNext ==
    \/ StartProgress
    \/ ProgressEntry
    \/ ProgressReturn

SpecProgress == ProgressInit /\ [][ProgressNext]_vars

\* C23 as the specification states it: stats.progress is at least 0 and at
\* most 100 in every state, and no update makes it smaller.
ProgressRange ==
    /\ [](FloatLeq(FloatZero, stats.progress) /\ FloatLeq(stats.progress, Hundred))
    /\ [][FloatLeq(stats.progress, stats'.progress)]_vars

\* The distance from 100.0 to the next float64 above it, 2^-46, in units of
\* 2^-FloatScale.
UlpOfHundred == Pow2(FloatScale + 7 - MantissaBits)

\* The rounding of float64 moves stats.progress away from 100 by at most four
\* such steps.
RoundingTolerance == 4 * UlpOfHundred

\* |x - y| is at most units * 2^-FloatScale
FloatNear(x, y, units) ==
    ~BigLess(<<units, 0, 0>>, ExactSum(x, Float(~y.neg, y.mag)).mag)

\* C23, what holds of the float64: stats.progress is never negative and never
\* exceeds 100 by more than the rounding tolerance, adding a chunk never
\* makes it smaller, and after the extra is added it is within the rounding
\* tolerance of 100.
ProgressWithinRounding ==
    /\ [](/\ FloatLeq(FloatZero, stats.progress)
          /\ \/ FloatLeq(stats.progress, Hundred)
             \/ FloatNear(stats.progress, Hundred, RoundingTolerance)
          /\ pc = "done" => FloatNear(stats.progress, Hundred, RoundingTolerance))
    /\ [][pc' = "walk" => FloatLeq(stats.progress, stats'.progress)]_vars

\* Six entries, the product not fused: the walk has returned and
\* stats.progress is 100.00000000000001
ProgressOvershootWitness ==
    /\ pc = "done"
    /\ walkLeft = 6
    /\ stack[1].i = 6
    /\ stack[1].progressExtra = FloatZero
    /\ stats.progress = Float(FALSE, BigAdd(Hundred.mag, <<UlpOfHundred, 0, 0>>))

\* ------------------------------------------------------------------------
\* getConfig: the validation of the command line
\* ------------------------------------------------------------------------

\* The command line holds at most this many positional arguments.
MaxArgs == 3

\* No *Config: what getConfig returns next to an error.
NoConfig == <<>>

\* The command lines: the mode flags, -no-data, and the positional arguments.
CommandLines ==
    [gapOpts : {NoGapOpts} \cup {CHOOSE gopt \in GapOptions : TRUE},
     deleteDupes : BOOLEAN,
     buildDB : BOOLEAN,
     checkDB : BOOLEAN,
     noData : BOOLEAN,
     args : {[i \in 1..n |-> IF i <= Len(Roots) THEN Roots[i] ELSE <<"T">>] : n \in 0..MaxArgs}]

\* A validation that does not look at -no-data.
ValidateArgsOnly(line) ==
    LET minArgs == IF line.gapOpts # NoGapOpts \/ line.deleteDupes THEN 1 ELSE 2
    IN  IF Len(line.args) < minArgs THEN "Expected targets" ELSE ""

\* getConfig, from f.Parse to the entries: the error it fails with, or "".
Validate(line) ==
    IF line.noData /\ (line.buildDB \/ line.checkDB)
    THEN "Can't deal with the hash database without looking at file contents!"
    ELSE LET minArgs == IF line.gapOpts # NoGapOpts \/ line.deleteDupes THEN 1 ELSE 2
         IN  IF Len(line.args) < minArgs THEN "Expected targets" ELSE ""

\* main: cfg, err := getConfig(os.Args[1:])
ParseArguments ==
    /\ pc = "start"
    /\ parsed = <<>>
    /\ LET err == Validate(arguments)
           config == [getConfig(arguments.args, -1, arguments.noData, FALSE)
                        EXCEPT !.gapOpts = arguments.gapOpts,
                               !.deleteDupes = arguments.deleteDupes,
                               !.buildDB = arguments.buildDB,
                               !.checkDB = arguments.checkDB]
       IN  /\ parsed' = [err |-> err, cfg |-> IF err = "" THEN config ELSE NoConfig]
           /\ cfg' = IF err = "" THEN config ELSE NoConfig
           /\ pc' = IF err = "" THEN "configured" ELSE "exit 2"
    /\ UNCHANGED <<fs, stack, stats, console, trail, lastEntry, lastCall, cmpVars, dupVars,
                   dbVars, shutVars, useVars, arguments>>

ConfigInit ==
    /\ arguments \in CommandLines
    /\ parsed = <<>>
    /\ cfg = NoConfig
    /\ fs = {}
    /\ pc = "start"
    /\ stack = <<>>
    /\ hashing = NoHashing
    /\ stats = ZeroStats
    /\ console = <<>>
    /\ trail = <<>>
    /\ lastEntry = NoEntry
    /\ lastCall = NoCall
    /\ seenHashes = {}
    /\ removed = {}
    /\ ensured = {}
    /\ lastDb = NoDbCall
    /\ dbSteps = 0
    /\ NoDisplayTask
    /\ copies = {}
    /\ runs = [count |-> 1, before |-> {}]
    /\ lastUse = NoUse

ConfigNext == ParseArguments

SpecConfig == ConfigInit /\ [][ConfigNext]_vars

\* The positional arguments the selected mode needs.
RequiredArgs(line) == IF Mode(line) \in {"gaps", "dedupe"} THEN 1 ELSE 2

\* C18 (configuration validation): getConfig returns an error and no
\* configuration when -no-data comes with -build-db or -check-db, and when
\* fewer positional arguments are given than the mode needs (one for gap
\* finding and dedupe, two for comparison, build and check); every other
\* command line gets a configuration with the arguments as its entries.
ConfigValidation ==
    parsed # <<>> =>
        IF \/ arguments.noData /\ (arguments.buildDB \/ arguments.checkDB)
           \/ Len(arguments.args) < RequiredArgs(arguments)
        THEN parsed.err # "" /\ parsed.cfg = NoConfig /\ pc = "exit 2"
        ELSE parsed.err = "" /\ parsed.cfg.entries = arguments.args /\ cfg = parsed.cfg

\* A build without content comparison was refused although it named a
\* source and a target.
ValidationWitness ==
    /\ parsed # <<>>
    /\ parsed.err # ""
    /\ arguments.noData
    /\ arguments.buildDB
    /\ Len(arguments.args) = 2

====
